---- MODULE Spec2Model ----
(***************************************************************************)
(* Model of the streaming-ingestion layer of CryptoTracker:                *)
(*   - BinanceWS        (src/src/infrastructure/websocket/BinanceWS.ts)    *)
(*   - ReconnectPolicy  (src/src/presentation/components/                  *)
(*                       DeviceDetailsView.tsx, lines 288-366)             *)
(*   - useTickerStore   (src/src/store/useTickerStore.ts)                  *)
(*   - batchedThrottle  (src/src/utils/throttle.ts)                        *)
(*                                                                         *)
(* Everything runs on one JavaScript event loop, so every handler (a       *)
(* public call, a transport event, a timer callback) is one atomic action. *)
(* Handlers are written as operators on a record w of the whole state, so  *)
(* that a handler which calls other methods is their composition.          *)
(***************************************************************************)
EXTENDS Integers, Sequences, FiniteSets, TLC

\* ---------------------------------------------------------------- bounds
MaxManagers == 2      \* BinanceWS instances that hold a socket or a timer at once
MaxDetached == 1      \* sockets per instance that this.ws no longer refers to
MaxOrphans  == 1      \* pending reconnect timers per instance no field refers to
MaxRetries  == 1      \* SpecStore: retries explored per instance
RandBits    == 1      \* Math.random() is drawn from {k / 2^RandBits}
MaxItems    == 3      \* items passed to the Coalescer in one run
TicksPerInterval == 2 \* clock ticks in one batch interval (the delay of batchedThrottle)
MaxTime     == 4      \* clock ticks followed
MaxFrames   == 3      \* SpecFeed: ticker frames accepted in one run

\* ------------------------------------------------------ program constants
HEARTBEAT_INTERVAL == 30000
STALE_THRESHOLD    == 60000
initialDelay       == 1000
maxDelay           == 30000
multiplier         == 2
maxAttempts        == 10
jitter             == TRUE

Mgrs    == 1..MaxManagers
Symbols == {"BTCUSDT", "ETHUSDT"}
Prices  == {1, 2}     \* parsed values of the field c of a valid frame
\* the symbol list the store gives every instance (two of the ten pairs)
CRYPTO_SYMBOLS == <<"btcusdt", "ethusdt">>
\* symbol lists updateSubscriptions is called with
SymbolLists == {<<"btcusdt">>, <<"ETHUSDT", "btcusdt">>}
NoTicker == [symbol |-> "none", currentPrice |-> 0]   \* tickers.get(s) === undefined
NoMgr   == 0          \* wsClient = null
RandDen == 2 ^ RandBits
Draws   == 0..(RandDen - 1)

\* A WebSocket object is represented by its state.  "FAILED" is a socket whose
\* error event was delivered and whose close event is still to come (its
\* readyState is CLOSED); "CLOSED" is a socket whose close event was delivered.
Pending == {"CONNECTING", "OPEN", "CLOSING", "FAILED"}  \* events still to come

VARIABLES
  \* ---- BinanceWS instances (indexed by Mgrs)
  ws,                    \* this.ws: "null" or the state of the socket it refers to
  detached,              \* sockets created by the instance that this.ws no longer
                         \* refers to but whose handlers still call into it: how
                         \* many there are in each state of Pending
  reconnectTimeout,      \* this.reconnectTimeout: "null", "pending" (the timer
                         \* it names has not fired) or "fired" (a stale handle)
  reconnectDelay,        \* delay the pending timer of reconnectTimeout was set with
  orphanTimers,          \* pending reconnect timers whose handle was overwritten
  isIntentionallyClosed, \* this.isIntentionallyClosed
  heartbeatInterval,     \* this.heartbeatInterval !== null
  hbWait,                \* time until the next tick of the heartbeat interval
  timeSinceLastMessage,  \* Date.now() - this.lastMessageTime, capped at AgeCap
  timeSinceOpen,         \* history, recorded under SpecSession: time since the
                         \* open event of the socket this.ws refers to, capped
                         \* at STALE_THRESHOLD; 0 when that socket is not open
  currentAttempt,        \* reconnectPolicy.currentAttempt
  symbols,               \* this.config.symbols
  \* ---- useTickerStore
  wsClient,              \* module variable wsClient
  isConnected,           \* state.isConnected
  error,                 \* state.error
  tickers,               \* state.tickers: symbol -> Ticker (NoTicker: no entry)
  tickersRef,            \* the Map object state.tickers refers to (objects are
                         \* numbered in the order of their creation)
  held,                  \* the Map object a subscriber of the store got from a
                         \* selector: ref the object, table what it holds now
  \* ---- what the last handler did to the outside
  out,                   \* callbacks invoked and frames sent by the last handler,
                         \* and the calls of new WebSocket() that raised in it
  received,              \* history: <<m, f>> when the last handler was onMessage
                         \* of instance m with frame f, <<NoMgr, NoFrame>> otherwise
  \* ---- batchedThrottle closure
  batch,                 \* let batch
  timeoutId,             \* let timeoutId !== null
  flushAt,               \* the time the timer of timeoutId is due
  flushTimerFired,       \* the timer timeoutId names has fired: the handle is stale
  added,                 \* history: the items passed to addToBatch, in order
  addedAt,               \* history: the time of each of these calls
  flushed,               \* history: the batches passed to callback, in order
  flushedAt,             \* history: the time of each of these calls
  \* ---- time
  now,                   \* Date.now() as the store and batchedThrottle see it,
                         \* in ticks of (batch interval / TicksPerInterval)
  lastUpdateTime,        \* state.lastUpdateTime
  \* ---- a ReconnectPolicy object used on its own
  policy,                \* its fields config, currentAttempt, currentDelay
  policyCalls,           \* history: getNextDelay() calls that returned since
                         \* the constructor or the last reset()
  policyResult,          \* history: the last call and what it gave
  \* ---- a throttle(func, delay) closure used on its own
  throttle,              \* its variables lastExecution, timeoutId (with dueAt,
                         \* the time its timer is due) and lastArgs
  throttleCalls,         \* history: the calls of the throttled function
  throttleRuns           \* history: the invocations of func

mgrVars   == <<ws, detached, reconnectTimeout, reconnectDelay, orphanTimers,
               isIntentionallyClosed, heartbeatInterval, hbWait,
               timeSinceLastMessage, timeSinceOpen, currentAttempt, symbols>>
storeVars == <<wsClient, isConnected, error, tickers>>
coVars    == <<batch, timeoutId, flushAt, flushTimerFired, added, addedAt, flushed,
               flushedAt>>
policyVars == <<policy, policyCalls, policyResult>>
mapVars   == <<tickersRef, held>>
throttleVars == <<throttle, throttleCalls, throttleRuns>>
vars      == <<mgrVars, storeVars, out, received, coVars, now, lastUpdateTime,
               policyVars, mapVars, throttleVars>>

\* no frame: the handler was not ws.onmessage
NoFrame == [e |-> "none", s |-> "none", c |-> 0, full |-> FALSE]

\* The state as one record, plus ok: FALSE when a handler ran into a bound.
World ==
  [ ws |-> ws, detached |-> detached, reconnectTimeout |-> reconnectTimeout,
    reconnectDelay |-> reconnectDelay, orphanTimers |-> orphanTimers,
    isIntentionallyClosed |-> isIntentionallyClosed,
    heartbeatInterval |-> heartbeatInterval, hbWait |-> hbWait,
    timeSinceLastMessage |-> timeSinceLastMessage, timeSinceOpen |-> timeSinceOpen,
    currentAttempt |-> currentAttempt, symbols |-> symbols,
    wsClient |-> wsClient, isConnected |-> isConnected, error |-> error,
    tickers |-> tickers, tickersRef |-> tickersRef, held |-> held,
    batch |-> batch, timeoutId |-> timeoutId, flushTimerFired |-> flushTimerFired,
    flushAt |-> flushAt, added |-> added, addedAt |-> addedAt,
    flushed |-> flushed, flushedAt |-> flushedAt,
    now |-> now, lastUpdateTime |-> lastUpdateTime,
    policy |-> policy, policyCalls |-> policyCalls, policyResult |-> policyResult,
    throttle |-> throttle, throttleCalls |-> throttleCalls,
    throttleRuns |-> throttleRuns,
    out |-> <<>>, received |-> <<NoMgr, NoFrame>>, ok |-> TRUE ]

NoDetached == [st \in Pending |-> 0]

NumDetached(w, m) ==
  w.detached[m]["CONNECTING"] + w.detached[m]["OPEN"]
    + w.detached[m]["CLOSING"] + w.detached[m]["FAILED"]

\* the instance still has a socket that will call its handlers, or a timer
Busy(w, m) ==
  \/ w.ws[m] \in Pending
  \/ NumDetached(w, m) > 0
  \/ w.reconnectTimeout[m] = "pending"
  \/ w.orphanTimers[m] > 0
  \/ w.heartbeatInterval[m]

\* the field initialisers and the constructor of BinanceWS (lines 37-53)
construct(w, m) ==
  [w EXCEPT !.ws[m] = "null", !.detached[m] = NoDetached,
            !.reconnectTimeout[m] = "null", !.reconnectDelay[m] = 0,
            !.orphanTimers[m] = 0, !.isIntentionallyClosed[m] = FALSE,
            !.heartbeatInterval[m] = FALSE, !.hbWait[m] = 0,
            !.timeSinceLastMessage[m] = 0, !.currentAttempt[m] = 0,
            !.symbols[m] = CRYPTO_SYMBOLS, !.timeSinceOpen[m] = 0]

\* An instance that wsClient does not refer to and that has no socket and no
\* timer left can never run again: it is garbage and its slot is cleared.
Garbage(w) == {m \in Mgrs : ~Busy(w, m) /\ w.wsClient # m}

Collect(w) ==
  LET g == Garbage(w)
      Clear(f, init) == [m \in Mgrs |-> IF m \in g THEN init ELSE f[m]]
  IN [w EXCEPT !.ws = Clear(@, "null"), !.detached = Clear(@, NoDetached),
               !.reconnectTimeout = Clear(@, "null"), !.reconnectDelay = Clear(@, 0),
               !.orphanTimers = Clear(@, 0), !.isIntentionallyClosed = Clear(@, FALSE),
               !.heartbeatInterval = Clear(@, FALSE), !.hbWait = Clear(@, 0),
               !.timeSinceLastMessage = Clear(@, 0), !.currentAttempt = Clear(@, 0),
               !.symbols = Clear(@, CRYPTO_SYMBOLS), !.timeSinceOpen = Clear(@, 0)]

Apply(w) ==
  \E v \in {w} : \E c \in {Collect(v)} :
     /\ c.ok
     /\ ws' = c.ws
     /\ detached' = c.detached
     /\ reconnectTimeout' = c.reconnectTimeout
     /\ reconnectDelay' = c.reconnectDelay
     /\ orphanTimers' = c.orphanTimers
     /\ isIntentionallyClosed' = c.isIntentionallyClosed
     /\ heartbeatInterval' = c.heartbeatInterval
     /\ hbWait' = c.hbWait
     /\ timeSinceLastMessage' = c.timeSinceLastMessage
     /\ timeSinceOpen' = c.timeSinceOpen
     /\ currentAttempt' = c.currentAttempt
     /\ symbols' = c.symbols
     /\ wsClient' = c.wsClient
     /\ isConnected' = c.isConnected
     /\ error' = c.error
     /\ tickers' = c.tickers
     /\ batch' = c.batch
     /\ timeoutId' = c.timeoutId
     /\ flushTimerFired' = c.flushTimerFired
     /\ added' = c.added
     /\ flushed' = c.flushed
     /\ flushAt' = c.flushAt
     /\ addedAt' = c.addedAt
     /\ flushedAt' = c.flushedAt
     /\ now' = c.now
     /\ lastUpdateTime' = c.lastUpdateTime
     /\ tickersRef' = c.tickersRef
     /\ held' = c.held
     /\ policy' = c.policy
     /\ policyCalls' = c.policyCalls
     /\ policyResult' = c.policyResult
     /\ throttle' = c.throttle
     /\ throttleCalls' = c.throttleCalls
     /\ throttleRuns' = c.throttleRuns
     /\ out' = c.out
     /\ received' = c.received

\* ------------------------------------------------------------ ReconnectPolicy
RECURSIVE Pow(_, _)
Pow(b, e) == IF e = 0 THEN 1 ELSE b * Pow(b, e - 1)

Min(a, b) == IF a <= b THEN a ELSE b

\* the configuration new ReconnectPolicy() gets, which is what BinanceWS uses
DefaultConfig ==
  [initialDelay |-> initialDelay, maxDelay |-> maxDelay, multiplier |-> multiplier,
   maxAttempts |-> maxAttempts, jitter |-> jitter]

\* configurations new ReconnectPolicy(config) is followed with, each with and
\* without jitter: the default one, a small one with odd delays, and one whose
\* initialDelay is above its maxDelay (the constructor takes any numbers)
Configs ==
  {[c EXCEPT !.jitter = j] :
     c \in {DefaultConfig,
            [initialDelay |-> 5, maxDelay |-> 50, multiplier |-> 3,
             maxAttempts |-> 4, jitter |-> TRUE],
            [initialDelay |-> 60, maxDelay |-> 50, multiplier |-> 2,
             maxAttempts |-> 2, jitter |-> TRUE]},
     j \in BOOLEAN}

\* a number that need not be whole is kept as num / den
Whole(n) == [num |-> n, den |-> 1]

\* delay = min(initialDelay * multiplier^attempt, maxDelay) that forgets the cap
rawDelayOf_uncapped(cfg, attempt) == cfg.initialDelay * Pow(cfg.multiplier, attempt)

\* delay = min(initialDelay * multiplier^attempt, maxDelay)
rawDelayOf(cfg, attempt) ==
  Min(cfg.initialDelay * Pow(cfg.multiplier, attempt), cfg.maxDelay)

\* the constructor
policyNew(cfg) ==
  [config |-> cfg, currentAttempt |-> 0, currentDelay |-> Whole(cfg.initialDelay)]

\* getNextDelay with jitterFactor = 1 + Math.random() * 0.5
policyGetNextDelay_jitterAbove(p, k) ==
  IF p.currentAttempt >= p.config.maxAttempts
  THEN [policy |-> p, threw |-> TRUE, value |-> 0]
  ELSE LET raw == rawDelayOf(p.config, p.currentAttempt)
           delay == IF p.config.jitter
                    THEN [num |-> raw * (2 * RandDen + k), den |-> 2 * RandDen]
                    ELSE Whole(raw)
       IN [policy |-> [p EXCEPT !.currentAttempt = @ + 1, !.currentDelay = delay],
           threw |-> FALSE, value |-> delay.num \div delay.den]

\* getNextDelay with the exhaustion test off by one
policyGetNextDelay_offByOne(p, k) ==
  IF p.currentAttempt > p.config.maxAttempts
  THEN [policy |-> p, threw |-> TRUE, value |-> 0]
  ELSE LET raw == rawDelayOf(p.config, p.currentAttempt)
           delay == IF p.config.jitter
                    THEN [num |-> raw * (RandDen + k), den |-> 2 * RandDen]
                    ELSE Whole(raw)
       IN [policy |-> [p EXCEPT !.currentAttempt = @ + 1, !.currentDelay = delay],
           threw |-> FALSE, value |-> delay.num \div delay.den]

\* getNextDelay that counts the attempt also when it throws
policyGetNextDelay_countsFailure(p, k) ==
  IF p.currentAttempt >= p.config.maxAttempts
  THEN [policy |-> [p EXCEPT !.currentAttempt = @ + 1], threw |-> TRUE, value |-> 0]
  ELSE LET raw == rawDelayOf(p.config, p.currentAttempt)
           delay == IF p.config.jitter
                    THEN [num |-> raw * (RandDen + k), den |-> 2 * RandDen]
                    ELSE Whole(raw)
       IN [policy |-> [p EXCEPT !.currentAttempt = @ + 1, !.currentDelay = delay],
           threw |-> FALSE, value |-> delay.num \div delay.den]

\* getNextDelay() on the policy p when Math.random() returns k / RandDen:
\* jitterFactor = 0.5 + random * 0.5 = (RandDen + k) / (2 * RandDen);
\* currentDelay is the delay before Math.floor, the value returned the one after
policyGetNextDelay(p, k) ==
  IF p.currentAttempt >= p.config.maxAttempts
  THEN [policy |-> p, threw |-> TRUE, value |-> 0]
  ELSE LET raw == rawDelayOf(p.config, p.currentAttempt)
           delay == IF p.config.jitter
                    THEN [num |-> raw * (RandDen + k), den |-> 2 * RandDen]
                    ELSE Whole(raw)
       IN [policy |-> [p EXCEPT !.currentAttempt = @ + 1, !.currentDelay = delay],
           threw |-> FALSE, value |-> delay.num \div delay.den]

policyCanRetry(p) == p.currentAttempt < p.config.maxAttempts

\* reset that restores the delay only
policyReset_keepsAttempt(p) ==
  [p EXCEPT !.currentDelay = Whole(p.config.initialDelay)]

policyReset(p) ==
  [p EXCEPT !.currentAttempt = 0, !.currentDelay = Whole(p.config.initialDelay)]

\* the policy of a BinanceWS instance: the default configuration, of which the
\* model keeps the field currentAttempt
policyAt(attempt) == [policyNew(DefaultConfig) EXCEPT !.currentAttempt = attempt]

rawDelay(attempt) == rawDelayOf(DefaultConfig, attempt)

\* getNextDelay(): the value returned when currentAttempt = attempt and
\* Math.random() returns k / RandDen
getNextDelay(attempt, k) == policyGetNextDelay(policyAt(attempt), k).value

\* canRetry with the comparison off by one
canRetry_offByOne(attempt) == attempt <= maxAttempts

canRetry(attempt) == policyCanRetry(policyAt(attempt))

\* ------------------------------------------------------------ batchedThrottle
\* addToBatch that starts a new batch with each item instead of pushing it
addToBatch_replaces(w, item) ==
  [w EXCEPT !.batch = <<item>>,
            !.added = Append(@, item),
            !.addedAt = Append(@, w.now),
            !.timeoutId = TRUE,
            !.flushAt = IF w.timeoutId THEN @ ELSE w.now + TicksPerInterval,
            !.ok = w.ok /\ Len(w.added) < MaxItems]

\* addToBatch that restarts the timer with every item (a debounce)
addToBatch_postpones(w, item) ==
  [w EXCEPT !.batch = Append(@, item),
            !.added = Append(@, item),
            !.addedAt = Append(@, w.now),
            !.timeoutId = TRUE,
            !.flushAt = w.now + TicksPerInterval,
            !.ok = w.ok /\ Len(w.added) < MaxItems]

\* addToBatch that arms the timer with no delay
addToBatch_noDelay(w, item) ==
  [w EXCEPT !.batch = Append(@, item),
            !.added = Append(@, item),
            !.addedAt = Append(@, w.now),
            !.timeoutId = TRUE,
            !.flushAt = IF w.timeoutId THEN @ ELSE w.now,
            !.ok = w.ok /\ Len(w.added) < MaxItems]

\* addToBatch(item): batch.push(item); if (!timeoutId) timeoutId =
\* setTimeout(..., delay), delay being TicksPerInterval ticks
addToBatch(w, item) ==
  [w EXCEPT !.batch = Append(@, item),
            !.added = Append(@, item),
            !.addedAt = Append(@, w.now),
            !.timeoutId = TRUE,
            !.flushAt = IF w.timeoutId THEN @ ELSE w.now + TicksPerInterval,
            !.ok = w.ok /\ Len(w.added) < MaxItems]

\* ------------------------------------------------------------------ throttle
\* throttle(func, delay) with a delay of ThrottleDelay ticks; the arguments of a
\* call are one value of ThrottleArgs; Date.now() is Epoch ticks at the start,
\* which is more than any delay, and `now` counts from there
ThrottleDelay == TicksPerInterval
ThrottleArgs == {"a", "b"}
NoArgs == "null"
Epoch == 1000

\* let lastExecution = 0; let timeoutId = null; let lastArgs = null
throttleNew ==
  [lastExecution |-> 0 - Epoch, timeoutId |-> FALSE, dueAt |-> 0, lastArgs |-> NoArgs]

\* throttled that remembers the arguments of the call that set the timer only
throttled_firstArgs(w, args) ==
  LET timeSinceLastExecution == w.now - w.throttle.lastExecution
      w0 == [w EXCEPT !.throttleCalls = Append(@, [args |-> args, at |-> w.now]),
                      !.ok = w.ok /\ Len(w.throttleCalls) < MaxItems]
  IN IF timeSinceLastExecution >= ThrottleDelay
     THEN [w0 EXCEPT !.throttle.lastArgs = args,
                     !.throttle.lastExecution = w.now,
                     !.throttleRuns = Append(@, [args |-> args, at |-> w.now,
                                                 trailing |-> FALSE]),
                     !.throttle.timeoutId = FALSE]
     ELSE IF ~w.throttle.timeoutId
     THEN [w0 EXCEPT !.throttle.lastArgs = args,
                     !.throttle.timeoutId = TRUE,
                     !.throttle.dueAt = w.now + (ThrottleDelay - timeSinceLastExecution)]
     ELSE w0

\* throttled(...args)
throttled(w, args) ==
  LET timeSinceLastExecution == w.now - w.throttle.lastExecution
      w0 == [w EXCEPT !.throttle.lastArgs = args,
                      !.throttleCalls = Append(@, [args |-> args, at |-> w.now]),
                      !.ok = w.ok /\ Len(w.throttleCalls) < MaxItems]
  IN IF timeSinceLastExecution >= ThrottleDelay
     THEN [w0 EXCEPT !.throttle.lastExecution = w.now,
                     !.throttleRuns = Append(@, [args |-> args, at |-> w.now,
                                                 trailing |-> FALSE]),
                     !.throttle.timeoutId = FALSE]
     ELSE IF ~w.throttle.timeoutId
     THEN [w0 EXCEPT !.throttle.timeoutId = TRUE,
                     !.throttle.dueAt = w.now + (ThrottleDelay - timeSinceLastExecution)]
     ELSE w0

\* the setTimeout callback of throttled
throttleTimer(w) ==
  [w EXCEPT !.throttle.lastExecution = w.now,
            !.throttleRuns = IF w.throttle.lastArgs # NoArgs
                             THEN Append(@, [args |-> w.throttle.lastArgs, at |-> w.now,
                                             trailing |-> TRUE])
                             ELSE @,
            !.throttle.timeoutId = FALSE,
            !.throttle.lastArgs = NoArgs]

\* ----------------------------------------------------- processTickerUpdates
\* A frame is [e, s, c, full]: the event type, the symbol, the value
\* parseFloat gives for the field c (NaN if it is no number), and whether all
\* of the required fields s, c, p, P, h, l, v, E are present.  e = "notObject"
\* is a payload that is no object (null, a number, a string).
NaN == -1   \* stands for the value NaN, which no comparison holds of
mapBinanceDataToTicker(data) == [symbol |-> data.s, currentPrice |-> data.c]

\* processTickerUpdate without the business rule on the price
processTickerUpdate_anyPrice(rawData) ==
  IF rawData.e = "notObject"
  THEN [isValid |-> FALSE, ticker |-> NoTicker, error |-> "Invalid data format"]
  ELSE IF rawData.e # "24hrTicker"
  THEN [isValid |-> FALSE, ticker |-> NoTicker, error |-> "Not a ticker event"]
  ELSE IF ~rawData.full
  THEN [isValid |-> FALSE, ticker |-> NoTicker, error |-> "Missing required fields"]
  ELSE [isValid |-> TRUE, ticker |-> mapBinanceDataToTicker(rawData), error |-> "none"]

processTickerUpdate(rawData) ==
  IF rawData.e = "notObject"
  THEN [isValid |-> FALSE, ticker |-> NoTicker, error |-> "Invalid data format"]
  ELSE IF rawData.e # "24hrTicker"
  THEN [isValid |-> FALSE, ticker |-> NoTicker, error |-> "Not a ticker event"]
  ELSE IF ~rawData.full
  THEN [isValid |-> FALSE, ticker |-> NoTicker, error |-> "Missing required fields"]
  ELSE IF rawData.c # NaN /\ rawData.c <= 0
  THEN [isValid |-> FALSE, ticker |-> NoTicker, error |-> "Invalid price value"]
  ELSE [isValid |-> TRUE, ticker |-> mapBinanceDataToTicker(rawData), error |-> "none"]

\* ------------------------------------------------- useTickerStore callbacks
RECURSIVE MergeBatch(_, _)
MergeBatch(table, ts) ==
  IF ts = <<>> THEN table
  ELSE MergeBatch([table EXCEPT ![Head(ts).symbol] = Head(ts)], Tail(ts))

\* flushBatch that keeps the record the table already has for a symbol
flushBatch_keepsKnown(w, ts) ==
  IF Len(ts) = 0 THEN w
  ELSE [w EXCEPT !.tickers = [s \in DOMAIN w.tickers |->
                                IF w.tickers[s] # NoTicker THEN w.tickers[s]
                                ELSE MergeBatch(w.tickers, ts)[s]],
                 !.tickersRef = @ + 1,
                 !.lastUpdateTime = w.now]

\* flushBatch that keeps the first record of a symbol in the batch
flushBatch_firstWins(w, ts) ==
  IF Len(ts) = 0 THEN w
  ELSE [w EXCEPT !.tickers = MergeBatch(@, [i \in 1..Len(ts) |-> ts[Len(ts) + 1 - i]]),
                 !.tickersRef = @ + 1,
                 !.lastUpdateTime = w.now]

\* flushBatch that writes the batch into the Map object of state.tickers
\* itself: whoever holds that object sees the writes
flushBatch_inPlace(w, ts) ==
  IF Len(ts) = 0 THEN w
  ELSE [w EXCEPT !.tickers = MergeBatch(@, ts),
                 !.held = IF @.ref = w.tickersRef
                          THEN [@ EXCEPT !.table = MergeBatch(w.tickers, ts)]
                          ELSE @,
                 !.lastUpdateTime = w.now]

\* flushBatch(tickers): newTickers = new Map(state.tickers) is a new object,
\* newTickers.set(ticker.symbol, ticker) for each ticker, in order, and one
\* set() that makes it state.tickers
flushBatch(w, ts) ==
  IF Len(ts) = 0 THEN w
  ELSE [w EXCEPT !.tickers = MergeBatch(@, ts),
                 !.tickersRef = @ + 1,
                 !.lastUpdateTime = w.now]

\* processTickerFromWS that writes each ticker to the store at once
processTickerFromWS_direct(w, data) ==
  LET result == processTickerUpdate(data)
  IN IF result.isValid THEN flushBatch(w, <<result.ticker>>) ELSE w

\* processTickerFromWS(data)
processTickerFromWS(w, data) ==
  LET result == processTickerUpdate(data)
  IN IF result.isValid THEN addToBatch(w, result.ticker) ELSE w

\* a timer callback that arms the next timer itself (as setInterval would)
flushTimer_rearms(w) ==
  LET w1 == IF Len(w.batch) > 0
            THEN [flushBatch([w EXCEPT !.flushed = Append(@, w.batch),
                                       !.flushedAt = Append(@, w.now)], w.batch)
                    EXCEPT !.batch = <<>>]
            ELSE w
  IN [w1 EXCEPT !.flushAt = w.now + TicksPerInterval]

\* a timer callback that leaves the batch as it is after handing it over
flushTimer_keepsBatch(w) ==
  LET w1 == IF Len(w.batch) > 0
            THEN flushBatch([w EXCEPT !.flushed = Append(@, w.batch),
                                      !.flushedAt = Append(@, w.now)], w.batch)
            ELSE w
  IN [w1 EXCEPT !.timeoutId = FALSE]

\* the setTimeout callback of batchedThrottle(flushBatch, 1000): callback is
\* flushBatch, called with a copy of the batch
flushTimer(w) ==
  LET w1 == IF Len(w.batch) > 0
            THEN [flushBatch([w EXCEPT !.flushed = Append(@, w.batch),
                                       !.flushedAt = Append(@, w.now)], w.batch)
                    EXCEPT !.batch = <<>>]
            ELSE w
  IN [w1 EXCEPT !.timeoutId = FALSE]

Call(w, m, cb, arg) == [w EXCEPT !.out = Append(@, [m |-> m, cb |-> cb, arg |-> arg])]

\* onError that only logs the error
storeOnError_logsOnly(w, m, msg) == Call(w, m, "onError", msg)

\* onError: set({ error: error.message })
storeOnError(w, m, msg) ==
  [Call(w, m, "onError", msg) EXCEPT !.error = msg]

\* onConnectionChange that also stamps lastUpdateTime
storeOnConnectionChange_stamps(w, m, status) ==
  [Call(w, m, "onConnectionChange", status) EXCEPT
     !.isConnected = (status = "connected"),
     !.error = IF status = "disconnected" THEN "Disconnected from server" ELSE "null",
     !.lastUpdateTime = w.now]

\* onConnectionChange: set({ isConnected: ..., error: ... })
storeOnConnectionChange(w, m, status) ==
  [Call(w, m, "onConnectionChange", status) EXCEPT
     !.isConnected = (status = "connected"),
     !.error = IF status = "disconnected" THEN "Disconnected from server" ELSE "null"]

\* ------------------------------------------------------------------ BinanceWS
\* this.ws?.readyState
readyState(w, m) == IF w.ws[m] = "FAILED" THEN "CLOSED" ELSE w.ws[m]

isConnectedWS(w, m) == readyState(w, m) = "OPEN"

\* this.ws stops referring to its socket; the socket keeps its handlers
Detach(w, m) ==
  IF w.ws[m] \in Pending
  THEN [w EXCEPT !.detached[m][w.ws[m]] = @ + 1, !.ws[m] = "null",
                 !.timeSinceOpen[m] = 0,
                 !.ok = w.ok /\ NumDetached(w, m) < MaxDetached]
  ELSE [w EXCEPT !.ws[m] = "null", !.timeSinceOpen[m] = 0]

stopHeartbeat(w, m) ==
  [w EXCEPT !.heartbeatInterval[m] = FALSE, !.hbWait[m] = 0]

\* handleReconnection that asks the policy for a delay twice (once for the log
\* line, once for setTimeout)
handleReconnection_twoDelays(w, m, k) ==
  IF ~canRetry(w.currentAttempt[m])
  THEN storeOnError(w, m, "Maximum reconnection attempts reached")
  ELSE [w EXCEPT
          !.currentAttempt[m] = @ + 2,
          !.reconnectTimeout[m] = "pending",
          !.reconnectDelay[m] = getNextDelay(w.currentAttempt[m] + 1, k),
          !.orphanTimers[m] = IF w.reconnectTimeout[m] = "pending" THEN @ + 1 ELSE @,
          !.ok = w.ok /\ (w.reconnectTimeout[m] = "pending" => w.orphanTimers[m] < MaxOrphans)]

\* handleReconnection that gives up without telling the owner
handleReconnection_silent(w, m, k) ==
  IF ~canRetry(w.currentAttempt[m])
  THEN w
  ELSE [w EXCEPT
          !.currentAttempt[m] = @ + 1,
          !.reconnectTimeout[m] = "pending",
          !.reconnectDelay[m] = getNextDelay(w.currentAttempt[m], k),
          !.orphanTimers[m] = IF w.reconnectTimeout[m] = "pending" THEN @ + 1 ELSE @,
          !.ok = w.ok /\ (w.reconnectTimeout[m] = "pending" => w.orphanTimers[m] < MaxOrphans)]

handleReconnection(w, m, k) ==
  IF ~canRetry(w.currentAttempt[m])
  THEN storeOnError(w, m, "Maximum reconnection attempts reached")
  ELSE [w EXCEPT
          !.currentAttempt[m] = @ + 1,
          !.reconnectTimeout[m] = "pending",
          !.reconnectDelay[m] = getNextDelay(w.currentAttempt[m], k),
          !.orphanTimers[m] = IF w.reconnectTimeout[m] = "pending" THEN @ + 1 ELSE @,
          !.ok = w.ok /\ (w.reconnectTimeout[m] = "pending" => w.orphanTimers[m] < MaxOrphans)]

\* connectWebSocket whose catch branch only logs the exception
connectWebSocket_logsOnly(w, m, throws, k) ==
  IF throws THEN Call(w, m, "new WebSocket", "raised")
  ELSE [Detach(w, m) EXCEPT !.ws[m] = "CONNECTING"]

\* throws: new WebSocket(url) raised, which out records; k: the jitter draw of
\* the catch branch
connectWebSocket(w, m, throws, k) ==
  IF throws THEN handleReconnection(Call(w, m, "new WebSocket", "raised"), m, k)
  ELSE [Detach(w, m) EXCEPT !.ws[m] = "CONNECTING"]

connect(w, m, throws, k) ==
  IF readyState(w, m) = "OPEN" THEN w
  ELSE connectWebSocket([w EXCEPT !.isIntentionallyClosed[m] = FALSE], m, throws, k)

\* disconnect that also resets the reconnect policy
disconnect_resetsPolicy(w, m) ==
  LET w1 == stopHeartbeat([w EXCEPT !.isIntentionallyClosed[m] = TRUE,
                                    !.currentAttempt[m] = 0], m)
      w2 == IF w1.reconnectTimeout[m] # "null"
            THEN [w1 EXCEPT !.reconnectTimeout[m] = "null", !.reconnectDelay[m] = 0]
            ELSE w1
  IN IF w2.ws[m] # "null"
     THEN Detach([w2 EXCEPT !.ws[m] = IF @ \in {"CONNECTING", "OPEN"} THEN "CLOSING" ELSE @], m)
     ELSE w2

disconnect(w, m) ==
  LET w1 == stopHeartbeat([w EXCEPT !.isIntentionallyClosed[m] = TRUE], m)
      w2 == IF w1.reconnectTimeout[m] # "null"
            THEN [w1 EXCEPT !.reconnectTimeout[m] = "null", !.reconnectDelay[m] = 0]
            ELSE w1
  IN IF w2.ws[m] # "null"
     \* ws.close(1000, ...) has no effect on a socket already closed; this.ws = null
     THEN Detach([w2 EXCEPT !.ws[m] = IF @ \in {"CONNECTING", "OPEN"} THEN "CLOSING" ELSE @], m)
     ELSE w2

reconnect(w, m, throws, k) == connect(disconnect(w, m), m, throws, k)

startHeartbeat(w, m) ==
  [stopHeartbeat(w, m) EXCEPT !.heartbeatInterval[m] = TRUE, !.hbWait[m] = HEARTBEAT_INTERVAL]

\* this.ws?.send(...): WebSocket.send raises on a socket that is still CONNECTING
sendThrows(w, m) == readyState(w, m) = "CONNECTING"

\* symbol.toLowerCase()
toLowerCase(symbol) ==
  CASE symbol = "BTCUSDT" -> "btcusdt"
    [] symbol = "ETHUSDT" -> "ethusdt"
    [] OTHER -> symbol

\* `${symbol.toLowerCase()}@ticker`, kept as the pair of its two parts
StreamName(symbol) == <<toLowerCase(symbol), "@ticker">>

\* this.config.symbols.map(symbol => `${symbol.toLowerCase()}@ticker`)
StreamNames(list) == [i \in 1..Len(list) |-> StreamName(list[i])]

\* subscribe that asks for the symbols as they are spelled in the list
subscribe_asSpelled(w, m) ==
  IF readyState(w, m) = "OPEN"
  THEN Call(w, m, "send", [method |-> "SUBSCRIBE",
                           params |-> [i \in 1..Len(w.symbols[m]) |->
                                         <<w.symbols[m][i], "@ticker">>],
                           id |-> 1])
  ELSE w

\* subscribe(): this.ws?.send(...) sends on an open socket and has no effect
\* on a closing or closed one
subscribe(w, m) ==
  IF readyState(w, m) = "OPEN"
  THEN Call(w, m, "send", [method |-> "SUBSCRIBE",
                           params |-> StreamNames(w.symbols[m]), id |-> 1])
  ELSE w

\* updateSubscriptions that subscribes to the new list before it drops the old
updateSubscriptions_subscribeFirst(w, m, newSymbols) ==
  IF ~ isConnectedWS(w, m) THEN w
  ELSE LET w1 == subscribe([w EXCEPT !.symbols[m] = newSymbols], m)
       IN Call(w1, m, "send", [method |-> "UNSUBSCRIBE",
                               params |-> StreamNames(w.symbols[m]), id |-> 2])

\* updateSubscriptions(newSymbols)
updateSubscriptions(w, m, newSymbols) ==
  IF ~ isConnectedWS(w, m) THEN w
  ELSE LET w1 == Call(w, m, "send", [method |-> "UNSUBSCRIBE",
                                     params |-> StreamNames(w.symbols[m]), id |-> 2])
       IN subscribe([w1 EXCEPT !.symbols[m] = newSymbols], m)

\* onOpen that leaves the reconnect policy as it is
onOpen_noReset(w, m) ==
  IF sendThrows(w, m) THEN w
  ELSE storeOnConnectionChange(startHeartbeat(subscribe(w, m), m), m, "connected")

\* onOpen that does not report 'connected'
onOpen_silent(w, m) ==
  LET w1 == [w EXCEPT !.currentAttempt[m] = 0]
  IN IF sendThrows(w1, m) THEN w1
     ELSE startHeartbeat(subscribe(w1, m), m)

onOpen(w, m) ==
  LET w1 == [w EXCEPT !.currentAttempt[m] = 0]
  IN IF sendThrows(w1, m) THEN w1
     ELSE storeOnConnectionChange(startHeartbeat(subscribe(w1, m), m), m, "connected")

\* onMessage that leaves lastMessageTime as it is
onMessage_keepsTime(w, m, f) ==
  LET w1 == [w EXCEPT !.received = <<m, f>>]
  IN IF f.e = "ack" THEN w1
     ELSE IF f.e = "24hrTicker"
     THEN processTickerFromWS(Call(w1, m, "onTicker", f), f)
     ELSE w1

\* onMessage without the test for the subscription confirmation
onMessage_forwardsAck(w, m, f) ==
  LET w1 == [w EXCEPT !.timeSinceLastMessage[m] = 0, !.received = <<m, f>>]
  IN IF f.e \in {"ack", "24hrTicker"}
     THEN processTickerFromWS(Call(w1, m, "onTicker", f), f)
     ELSE w1

\* onMessage for a frame f: e = "ack" is {result: null, id: 1}, e = "other" is
\* any other text that is no JSON or has no e = '24hrTicker', e = "notObject"
\* a JSON text of null (data.result raises, which is caught), a number or a
\* string (data.e is undefined)
onMessage(w, m, f) ==
  LET w1 == [w EXCEPT !.timeSinceLastMessage[m] = 0, !.received = <<m, f>>]
  IN IF f.e = "ack" THEN w1
     ELSE IF f.e = "24hrTicker"
     THEN processTickerFromWS(Call(w1, m, "onTicker", f), f)
     ELSE w1

\* onError that also stops the heartbeat
onError_stopsHeartbeat(w, m) ==
  stopHeartbeat(storeOnError(w, m, "WebSocket error occurred"), m)

onError(w, m) == storeOnError(w, m, "WebSocket error occurred")

onClose(w, m, k) ==
  LET w1 == storeOnConnectionChange(stopHeartbeat(w, m), m, "disconnected")
  IN IF ~w1.isIntentionallyClosed[m] THEN handleReconnection(w1, m, k) ELSE w1

\* ------------------------------------------------------------- useTickerStore
FreeSlots(w) == {m \in Mgrs : ~Busy(w, m)}

storeConnect(w, throws, k) ==
  IF w.wsClient # NoMgr /\ isConnectedWS(w, w.wsClient) THEN w
  ELSE IF FreeSlots(w) = {} THEN [w EXCEPT !.ok = FALSE]
  ELSE LET m == CHOOSE x \in FreeSlots(w) : \A y \in FreeSlots(w) : x <= y
       IN connect([construct(w, m) EXCEPT !.wsClient = m], m, throws, k)

\* disconnect that leaves state.isConnected as it is
storeDisconnect_keepsStatus(w) ==
  LET w1 == IF w.wsClient # NoMgr THEN disconnect(w, w.wsClient) ELSE w
  IN [w1 EXCEPT !.wsClient = NoMgr]

storeDisconnect(w) ==
  LET w1 == IF w.wsClient # NoMgr THEN disconnect(w, w.wsClient) ELSE w
  IN [w1 EXCEPT !.wsClient = NoMgr, !.isConnected = FALSE]

\* ----------------------------------------------------------------- transport
\* socket sel of instance m: sel.det = FALSE is the socket this.ws refers to,
\* sel.det = TRUE a detached socket in state sel.st
HasSock(m, det, st) ==
  IF det THEN detached[m][st] > 0 ELSE ws[m] = st

\* the world after that socket went to state new ("CLOSED": it is gone)
SetSock(m, det, st, new) ==
  IF det
  THEN IF new = "CLOSED"
       THEN [World EXCEPT !.detached[m][st] = @ - 1]
       ELSE [World EXCEPT !.detached[m][st] = @ - 1, !.detached[m][new] = @ + 1]
  ELSE [World EXCEPT !.ws[m] = new, !.timeSinceOpen[m] = 0]

\* ------------------------------------------------------------------ actions
ControlFrames == [e : {"ack", "other", "notObject"}, s : {"none"}, c : {0}, full : {FALSE}]
TickerFrames  == [e : {"24hrTicker"}, s : Symbols, c : Prices \cup {0, NaN}, full : BOOLEAN]
Tickers       == [symbol : Symbols, currentPrice : Prices]
\* the tickers processTickerUpdate lets through
AcceptedTickers ==
  {processTickerUpdate(f).ticker : f \in {g \in TickerFrames : processTickerUpdate(g).isValid}}
AgeCap == STALE_THRESHOLD + HEARTBEAT_INTERVAL   \* stands for every larger age

\* what a call of a ReconnectPolicy method gave: op the method, threw whether it
\* raised, value the delay returned, can the boolean returned, was the value
\* of currentAttempt before the call
NoResult == [op |-> "none", threw |-> FALSE, value |-> 0, can |-> FALSE, was |-> 0]

Init ==
  /\ ws = [m \in Mgrs |-> "null"]
  /\ detached = [m \in Mgrs |-> NoDetached]
  /\ reconnectTimeout = [m \in Mgrs |-> "null"]
  /\ reconnectDelay = [m \in Mgrs |-> 0]
  /\ orphanTimers = [m \in Mgrs |-> 0]
  /\ isIntentionallyClosed = [m \in Mgrs |-> FALSE]
  /\ heartbeatInterval = [m \in Mgrs |-> FALSE]
  /\ hbWait = [m \in Mgrs |-> 0]
  /\ timeSinceLastMessage = [m \in Mgrs |-> 0]
  /\ timeSinceOpen = [m \in Mgrs |-> 0]
  /\ currentAttempt = [m \in Mgrs |-> 0]
  /\ symbols = [m \in Mgrs |-> CRYPTO_SYMBOLS]
  /\ wsClient = NoMgr
  /\ isConnected = FALSE
  /\ error = "null"
  /\ tickers = [sym \in Symbols |-> NoTicker]
  /\ out = <<>>
  /\ received = <<NoMgr, NoFrame>>
  /\ batch = <<>>
  /\ timeoutId = FALSE
  /\ flushTimerFired = FALSE
  /\ added = <<>>
  /\ flushed = <<>>
  /\ flushAt = 0
  /\ addedAt = <<>>
  /\ flushedAt = <<>>
  /\ now = 0
  /\ lastUpdateTime = 0
  /\ tickersRef = 0
  /\ held = [ref |-> 0, table |-> [s \in Symbols |-> NoTicker]]
  /\ policy = policyNew(DefaultConfig)
  /\ policyCalls = 0
  /\ policyResult = NoResult
  /\ throttle = throttleNew
  /\ throttleCalls = <<>>
  /\ throttleRuns = <<>>

\* the owner (TickerScreen mount, App foreground) calls useTickerStore.connect()
StoreConnect(throws) ==
  /\ \E k \in Draws : Apply(storeConnect(World, throws, k))

\* the owner calls useTickerStore.disconnect()
StoreDisconnect ==
  /\ Apply(storeDisconnect(World))

\* the transport reports that a socket of instance m is open: ws.onopen
SocketOpen(m, det) ==
  /\ HasSock(m, det, "CONNECTING")
  /\ Apply(onOpen(SetSock(m, det, "CONNECTING", "OPEN"), m))

\* a frame arrives on an open socket of instance m: ws.onmessage
SocketMessage(m, det, f) ==
  /\ HasSock(m, det, "OPEN")
  /\ Apply(onMessage(World, m, f))

\* the holder of instance m calls m.updateSubscriptions(newSymbols)
UpdateSubscriptions(m, newSymbols) ==
  /\ wsClient = m
  /\ newSymbols \in SymbolLists
  /\ Apply(updateSubscriptions(Call(World, m, "updateSubscriptions", newSymbols),
                               m, newSymbols))

\* a subscriber of the store reads state.tickers in a selector and keeps it
SelectTickers ==
  /\ held.ref # tickersRef
  /\ Apply([World EXCEPT !.held = [ref |-> tickersRef, table |-> tickers]])

\* a caller calls the throttled function with args
Throttled(args) ==
  /\ args \in ThrottleArgs
  /\ Apply(throttled(World, args))

\* the timer of the throttled function fires, when it is due or later
ThrottleTimerFire ==
  /\ throttle.timeoutId
  /\ now >= throttle.dueAt
  /\ Apply(throttleTimer(World))

\* processTickerFromWS is called with the payload data (its parameter is any)
ProcessTickerFromWS(data) ==
  /\ data \in ControlFrames \cup TickerFrames
  /\ Apply(processTickerFromWS([World EXCEPT !.received = <<NoMgr, data>>], data))

\* the setTimeout callback of batchedThrottle with any consumer: the consumer
\* may call addToBatch(again) before it returns (reenters), and it may raise
\* (throws), in which case the two assignments after the call are not reached.
\* The consumer that returns is flushBatch.
flushTimerOf(w, throws, reenters, again) ==
  IF Len(w.batch) > 0
  THEN LET w1 == [w EXCEPT !.flushed = Append(@, w.batch),
                           !.flushedAt = Append(@, w.now)]
           w2 == IF reenters THEN addToBatch(w1, again) ELSE w1
       IN IF throws
          THEN [w2 EXCEPT !.flushTimerFired = TRUE]
          ELSE [flushBatch(w2, w.batch) EXCEPT !.batch = <<>>, !.timeoutId = FALSE]
  ELSE [w EXCEPT !.timeoutId = FALSE]

\* processTickerFromWS hands a validated ticker t to batchedUpdate
BatchedUpdate(t) ==
  /\ t \in Tickers
  /\ Apply(addToBatch(World, t))

\* the timer armed by addToBatch fires when it is due; the callback is flushBatch
FlushTimerFire ==
  /\ timeoutId /\ ~flushTimerFired
  /\ now >= flushAt
  /\ Apply(flushTimer(World))

\* the transport fails: ws.onerror; the close event follows separately
SocketError(m, det) ==
  \E st \in {"CONNECTING", "OPEN", "CLOSING"} :
    /\ HasSock(m, det, st)
    /\ Apply(onError(SetSock(m, det, st, "FAILED"), m))
  
\* the close event of a socket of instance m: ws.onclose
SocketClose(m, det) ==
  \E st \in {"OPEN", "CLOSING", "FAILED"}, k \in Draws :
    /\ HasSock(m, det, st)
    /\ Apply(onClose(SetSock(m, det, st, "CLOSED"), m, k))
  
\* the timer this.reconnectTimeout names fires: () => this.connectWebSocket()
ReconnectTimerFire(m, throws) ==
  /\ reconnectTimeout[m] = "pending"
  /\ \E k \in Draws :
       Apply(connectWebSocket([World EXCEPT !.reconnectTimeout[m] = "fired",
                                            !.reconnectDelay[m] = 0], m, throws, k))

\* a reconnect timer whose handle was overwritten fires
OrphanTimerFire(m, throws) ==
  /\ orphanTimers[m] > 0
  /\ \E k \in Draws :
       Apply(connectWebSocket([World EXCEPT !.orphanTimers[m] = @ - 1], m, throws, k))

\* one clock tick passes; a flush timer that is due fires first
ClockTick ==
  /\ (timeoutId /\ ~flushTimerFired) => now < flushAt
  /\ now < MaxTime
  /\ Apply([World EXCEPT !.now = @ + 1])

\* new ReconnectPolicy(cfg)
PolicyNew(cfg) ==
  /\ cfg \in Configs
  /\ Apply([World EXCEPT !.policy = policyNew(cfg), !.policyCalls = 0,
                         !.policyResult = [NoResult EXCEPT !.op = "new"]])

\* policy.getNextDelay(), Math.random() giving k / RandDen
PolicyGetNextDelay(k) ==
  /\ k \in Draws
  /\ LET r == policyGetNextDelay(policy, k)
     IN Apply([World EXCEPT
          !.policy = r.policy,
          !.policyCalls = IF r.threw THEN @ ELSE @ + 1,
          !.policyResult = [NoResult EXCEPT !.op = "getNextDelay", !.threw = r.threw,
                                            !.value = r.value,
                                            !.was = policy.currentAttempt]])

\* policy.canRetry()
PolicyCanRetry ==
  /\ policyResult.op # "canRetry"
  /\ Apply([World EXCEPT
       !.policyResult = [NoResult EXCEPT !.op = "canRetry", !.can = policyCanRetry(policy),
                                         !.was = policy.currentAttempt]])

\* policy.reset()
PolicyReset ==
  /\ policyResult.op # "reset"
  /\ Apply([World EXCEPT
       !.policy = policyReset(policy), !.policyCalls = 0,
       !.policyResult = [NoResult EXCEPT !.op = "reset", !.was = policy.currentAttempt]])

\* the setInterval callback of startHeartbeat
HeartbeatTick(m, throws) ==
  /\ heartbeatInterval[m]
  /\ hbWait[m] = 0
  /\ LET w1 == [World EXCEPT !.hbWait[m] = HEARTBEAT_INTERVAL]
     IN IF timeSinceLastMessage[m] > STALE_THRESHOLD
        THEN \E k \in Draws : Apply(reconnect(w1, m, throws, k))
        ELSE Apply(w1)

\* HEARTBEAT_INTERVAL ms pass; a heartbeat tick that is due fires first
AdvanceTime ==
  /\ \A m \in Mgrs : heartbeatInterval[m] => hbWait[m] > 0
  /\ Apply([World EXCEPT
       !.timeSinceLastMessage =
          [m \in Mgrs |-> IF Busy(World, m) \/ wsClient = m
                          THEN Min(@[m] + HEARTBEAT_INTERVAL, AgeCap) ELSE @[m]],
       !.hbWait = [m \in Mgrs |-> 0]])

\* AdvanceTime that also records the age of the open sessions
AdvanceSessionTime ==
  /\ \A m \in Mgrs : heartbeatInterval[m] => hbWait[m] > 0
  /\ Apply([World EXCEPT
       !.timeSinceLastMessage =
          [m \in Mgrs |-> IF Busy(World, m) \/ wsClient = m
                          THEN Min(@[m] + HEARTBEAT_INTERVAL, AgeCap) ELSE @[m]],
       !.timeSinceOpen =
          [m \in Mgrs |-> IF ws[m] = "OPEN"
                          THEN Min(@[m] + HEARTBEAT_INTERVAL, STALE_THRESHOLD)
                          ELSE @[m]],
       !.hbWait = [m \in Mgrs |-> 0]])

InUse == {m \in Mgrs : Busy(World, m) \/ wsClient = m}
OneInstance == Cardinality(InUse) <= 1
FewRetries == \A m \in Mgrs : currentAttempt[m] <= MaxRetries

\* Spec: the store used with one BinanceWS instance at a time (connect() is
\* not called while an earlier instance still has a socket or a timer); the
\* instance is followed through its whole retry budget.  new WebSocket(url)
\* does not raise: the URL is a constant and well formed.
Next ==
  \/ StoreConnect(FALSE) /\ OneInstance'
  \/ StoreDisconnect
  \/ \E m \in Mgrs, det \in BOOLEAN : SocketOpen(m, det)
  \/ \E m \in Mgrs, det \in BOOLEAN, f \in ControlFrames : SocketMessage(m, det, f)
  \/ \E m \in Mgrs, det \in BOOLEAN : SocketError(m, det)
  \/ \E m \in Mgrs, det \in BOOLEAN : SocketClose(m, det)
  \/ \E m \in Mgrs : ReconnectTimerFire(m, FALSE)
  \/ \E m \in Mgrs : OrphanTimerFire(m, FALSE)
  \/ \E m \in Mgrs : HeartbeatTick(m, FALSE)
  \/ AdvanceTime

Spec == Init /\ [][Next]_vars

\* SpecSession: as Spec, with the age of the open session recorded
NextSession ==
  \/ StoreConnect(FALSE) /\ OneInstance'
  \/ StoreDisconnect
  \/ \E m \in Mgrs, det \in BOOLEAN : SocketOpen(m, det)
  \/ \E m \in Mgrs, det \in BOOLEAN, f \in ControlFrames : SocketMessage(m, det, f)
  \/ \E m \in Mgrs, det \in BOOLEAN : SocketError(m, det)
  \/ \E m \in Mgrs, det \in BOOLEAN : SocketClose(m, det)
  \/ \E m \in Mgrs : ReconnectTimerFire(m, FALSE)
  \/ \E m \in Mgrs : OrphanTimerFire(m, FALSE)
  \/ \E m \in Mgrs : HeartbeatTick(m, FALSE)
  \/ AdvanceSessionTime

SpecSession == Init /\ [][NextSession]_vars

\* SpecThrow: as Spec, and new WebSocket(url) may raise at every call
NextThrow ==
  \/ \E throws \in BOOLEAN : StoreConnect(throws) /\ OneInstance'
  \/ StoreDisconnect
  \/ \E m \in Mgrs, det \in BOOLEAN : SocketOpen(m, det)
  \/ \E m \in Mgrs, det \in BOOLEAN, f \in ControlFrames : SocketMessage(m, det, f)
  \/ \E m \in Mgrs, det \in BOOLEAN : SocketError(m, det)
  \/ \E m \in Mgrs, det \in BOOLEAN : SocketClose(m, det)
  \/ \E m \in Mgrs, throws \in BOOLEAN : ReconnectTimerFire(m, throws)
  \/ \E m \in Mgrs, throws \in BOOLEAN : OrphanTimerFire(m, throws)
  \/ \E m \in Mgrs, throws \in BOOLEAN : HeartbeatTick(m, throws)
  \/ AdvanceTime

SpecThrow == Init /\ [][NextThrow]_vars

\* SpecStore: the store with up to MaxManagers instances alive at once, over
\* a stretch of time shorter than one heartbeat interval; each instance is
\* followed through MaxRetries retries, and new WebSocket() does not raise.
NextStore ==
  \/ StoreConnect(FALSE)
  \/ StoreDisconnect
  \/ \E m \in Mgrs, det \in BOOLEAN : SocketOpen(m, det)
  \/ \E m \in Mgrs, det \in BOOLEAN, f \in ControlFrames : SocketMessage(m, det, f)
  \/ \E m \in Mgrs, det \in BOOLEAN : SocketError(m, det)
  \/ \E m \in Mgrs, det \in BOOLEAN : SocketClose(m, det) /\ FewRetries'
  \/ \E m \in Mgrs : ReconnectTimerFire(m, FALSE)

SpecStore == Init /\ [][NextStore]_vars

\* SpecFeed: one connection that delivers frames of every kind for one symbol
\* to the store until the owner disconnects, with the flush timer and the
\* clock; the transport does not fail
FewFrames == Len(added) <= MaxFrames
FeedFrames == ControlFrames \cup {f \in TickerFrames : f.s = "BTCUSDT"}

NextFeed ==
  \/ StoreConnect(FALSE) /\ OneInstance'
  \/ StoreDisconnect
  \/ \E m \in Mgrs, det \in BOOLEAN : SocketOpen(m, det)
  \/ \E m \in Mgrs, det \in BOOLEAN, f \in FeedFrames :
        SocketMessage(m, det, f) /\ FewFrames'
  \/ FlushTimerFire
  \/ ClockTick

SpecFeed == Init /\ [][NextFeed]_vars

\* SpecInbound: one connection that delivers frames of every kind for one
\* symbol while time passes and the heartbeat ticks, and processTickerFromWS
\* called with payloads of every kind; the flush timer is not followed
NextInbound ==
  \/ StoreConnect(FALSE) /\ OneInstance'
  \/ StoreDisconnect
  \/ \E m \in Mgrs, det \in BOOLEAN : SocketOpen(m, det)
  \/ \E m \in Mgrs, det \in BOOLEAN, f \in FeedFrames :
        SocketMessage(m, det, f) /\ FewFrames'
  \/ \E data \in FeedFrames : ProcessTickerFromWS(data) /\ FewFrames'
  \/ \E m \in Mgrs : HeartbeatTick(m, FALSE)
  \/ AdvanceTime

SpecInbound == Init /\ [][NextInbound]_vars

\* SpecSubscriptions: one instance whose symbol list is changed while its
\* connection opens, closes and is retried
NextSubscriptions ==
  \/ StoreConnect(FALSE)
  \/ StoreDisconnect
  \/ \E m \in Mgrs, det \in BOOLEAN : SocketOpen(m, det)
  \/ \E m \in Mgrs, det \in BOOLEAN : SocketClose(m, det) /\ FewRetries'
  \/ \E m \in Mgrs : ReconnectTimerFire(m, FALSE)
  \/ \E m \in Mgrs, l \in SymbolLists : UpdateSubscriptions(m, l)

SpecSubscriptions == Init /\ [][NextSubscriptions]_vars

\* SpecTable: SpecFeed with transport errors, close events and retries, for
\* what each handler of the store does to the table
TableFrames == {f \in FeedFrames : f.c \in {0, 1}}

NextTable ==
  \/ StoreConnect(FALSE) /\ OneInstance'
  \/ StoreDisconnect
  \/ \E m \in Mgrs, det \in BOOLEAN : SocketOpen(m, det)
  \/ \E m \in Mgrs, det \in BOOLEAN, f \in TableFrames :
        SocketMessage(m, det, f) /\ FewFrames'
  \/ \E m \in Mgrs, det \in BOOLEAN : SocketError(m, det)
  \/ \E m \in Mgrs, det \in BOOLEAN : SocketClose(m, det) /\ FewRetries'
  \/ \E m \in Mgrs : ReconnectTimerFire(m, FALSE)
  \/ FlushTimerFire
  \/ ClockTick

SpecTable == Init /\ [][NextTable]_vars

\* SpecThrottle: a throttled function, its callers and its timer
NextThrottle ==
  \/ \E args \in ThrottleArgs : Throttled(args)
  \/ ThrottleTimerFire
  \/ ClockTick

SpecThrottle == Init /\ [][NextThrottle]_vars

\* SpecPolicy: a ReconnectPolicy object and its callers
NextPolicy ==
  \/ \E cfg \in Configs : PolicyNew(cfg)
  \/ \E k \in Draws : PolicyGetNextDelay(k)
  \/ PolicyCanRetry
  \/ PolicyReset

SpecPolicy == Init /\ [][NextPolicy]_vars

\* SpecCoalescer: batchedThrottle as the store uses it, fed with validated
\* tickers; the consumer flushBatch returns normally
NextCoalescer ==
  \/ \E t \in Tickers : BatchedUpdate(t)
  \/ FlushTimerFire
  \/ ClockTick

SpecCoalescer == Init /\ [][NextCoalescer]_vars

\* the flush timer fires when it is due, with a consumer that may raise or add
ConsumerFlushTimerFire(throws, reenters, again) ==
  /\ timeoutId /\ ~flushTimerFired
  /\ now >= flushAt
  /\ Apply(flushTimerOf(World, throws, reenters, again))

\* SpecConsumer: batchedThrottle with any consumer callback
NextConsumer ==
  \/ \E t \in Tickers : BatchedUpdate(t)
  \/ \E throws \in BOOLEAN, reenters \in BOOLEAN, again \in Tickers :
        ConsumerFlushTimerFire(throws, reenters, again)
  \/ ClockTick

SpecConsumer == Init /\ [][NextConsumer]_vars

\* SpecSnapshot: SpecCoalescer with a subscriber that reads the table
NextSnapshot ==
  \/ \E t \in Tickers : BatchedUpdate(t)
  \/ FlushTimerFire
  \/ ClockTick
  \/ SelectTickers

SpecSnapshot == Init /\ [][NextSnapshot]_vars

\* the values the variables range over
TypeOK ==
  /\ ws \in [Mgrs -> {"null", "CONNECTING", "OPEN", "FAILED", "CLOSED"}]
  /\ detached \in [Mgrs -> [Pending -> 0..MaxDetached]]
  /\ reconnectTimeout \in [Mgrs -> {"null", "pending", "fired"}]
  /\ reconnectDelay \in [Mgrs -> 0..maxDelay]
  /\ orphanTimers \in [Mgrs -> 0..MaxOrphans]
  /\ isIntentionallyClosed \in [Mgrs -> BOOLEAN]
  /\ heartbeatInterval \in [Mgrs -> BOOLEAN]
  /\ hbWait \in [Mgrs -> {0, HEARTBEAT_INTERVAL}]
  /\ timeSinceLastMessage \in [Mgrs -> 0..AgeCap]
  /\ timeSinceOpen \in [Mgrs -> 0..STALE_THRESHOLD]
  /\ \A m \in Mgrs : ws[m] # "OPEN" => timeSinceOpen[m] = 0
  /\ currentAttempt \in [Mgrs -> 0..maxAttempts]
  /\ wsClient \in Mgrs \cup {NoMgr}
  /\ isConnected \in BOOLEAN
  /\ error \in {"null", "Disconnected from server", "WebSocket error occurred",
                "Maximum reconnection attempts reached"}
  /\ tickers \in [Symbols -> AcceptedTickers \cup {NoTicker}]
  /\ batch \in Seq(AcceptedTickers) /\ Len(batch) <= MaxItems
  /\ symbols \in [Mgrs -> SymbolLists \cup {CRYPTO_SYMBOLS}]
  /\ received \in (Mgrs \cup {NoMgr}) \X (ControlFrames \cup TickerFrames \cup {NoFrame})
  /\ timeoutId \in BOOLEAN
  /\ flushTimerFired \in BOOLEAN /\ (flushTimerFired => timeoutId)
  /\ added \in Seq(AcceptedTickers) /\ Len(added) <= MaxItems
  /\ Len(flushed) <= MaxItems
  /\ flushAt \in 0..(MaxTime + TicksPerInterval)
  /\ addedAt \in Seq(0..MaxTime) /\ Len(addedAt) = Len(added)
  /\ flushedAt \in Seq(0..MaxTime) /\ Len(flushedAt) = Len(flushed)
  /\ now \in 0..MaxTime
  /\ lastUpdateTime \in 0..MaxTime
  /\ tickersRef \in Nat
  /\ held \in [ref : 0..tickersRef, table : [Symbols -> Tickers \cup {NoTicker}]]
  /\ policy.config \in Configs
  /\ policy.currentAttempt \in 0..policy.config.maxAttempts
  /\ policy.currentDelay.den \in {1, 2 * RandDen}
  /\ policyCalls \in 0..maxAttempts
  /\ policyResult.op \in {"none", "new", "getNextDelay", "canRetry", "reset"}
  /\ throttle \in [lastExecution : (0 - Epoch)..MaxTime, timeoutId : BOOLEAN,
                    dueAt : 0..(MaxTime + ThrottleDelay), lastArgs : ThrottleArgs \cup {NoArgs}]
  /\ throttleCalls \in Seq([args : ThrottleArgs, at : 0..MaxTime])
  /\ throttleRuns \in Seq([args : ThrottleArgs, at : 0..MaxTime, trailing : BOOLEAN])

\* ------------------------------------------------------ vocabulary of claims
\* transport sessions of instance m: sockets that are connecting or open and
\* still carry its handlers
Sessions(m) ==
  (IF ws[m] \in {"CONNECTING", "OPEN"} THEN 1 ELSE 0)
    + detached[m]["CONNECTING"] + detached[m]["OPEN"]

\* reconnect timers of instance m that have not fired
Timers(m) == (IF reconnectTimeout[m] = "pending" THEN 1 ELSE 0) + orphanTimers[m]

\* the handler that just ran invoked callback cb of instance m with arg
Called(m, cb, arg) ==
  \E i \in 1..Len(out) : out[i].m = m /\ out[i].cb = cb /\ out[i].arg = arg

CallCount(m, cb, arg) ==
  Cardinality({i \in 1..Len(out) :
                 out[i].m = m /\ out[i].cb = cb /\ out[i].arg = arg})

\* C1: every BinanceWS instance has at most one transport session at any time
C1_OneSessionPerManager == \A m \in Mgrs : Sessions(m) <= 1

MaxError == "Maximum reconnection attempts reached"
BusyNow(m) == Busy(World, m)

\* the handler that ran in this step was onClose of instance m
CloseEvent(m) == Called(m, "onConnectionChange", "disconnected")'

\* C2: an instance the owner disconnected (wsClient no longer refers to it)
\* has no reconnect timer pending, no heartbeat running and no new socket
C2_DisconnectStaysDown ==
  \A m \in Mgrs : m # wsClient =>
     /\ Timers(m) = 0
     /\ ~heartbeatInterval[m]
     /\ ws[m] = "null"

\* the heartbeat tick of instance m finds the connection stale and reconnects
StaleTick(m) ==
  /\ heartbeatInterval[m] /\ hbWait[m] = 0
  /\ timeSinceLastMessage[m] > STALE_THRESHOLD
  /\ detached'[m]["CLOSING"] = detached[m]["CLOSING"] + 1
  /\ wsClient' = wsClient

\* the close event of a socket that disconnect() had closed
ForcedCloseEvent(m) ==
  /\ CloseEvent(m)
  /\ detached'[m]["CLOSING"] = detached[m]["CLOSING"] - 1
  /\ detached'[m]["FAILED"] = detached[m]["FAILED"]

\* C3: a stale heartbeat tick force-closes the session and starts exactly one
\* replacement attempt, and the late close event of the force-closed socket
\* schedules no further reconnect
C3_StaleReconnectOnce ==
  [][\A m \in Mgrs :
       /\ StaleTick(m) => Sessions(m)' + Timers(m)' = 1
       /\ ForcedCloseEvent(m) =>
            Timers(m)' = Timers(m)]_vars

\* C4: a close event that finds isIntentionallyClosed false and attempts left
\* schedules exactly one reconnect timer, with the delay of one getNextDelay()
\* call, and the attempt counter grows by exactly 1
C4_CloseSchedulesOneRetry ==
  [][\A m \in Mgrs :
       (CloseEvent(m) /\ ~isIntentionallyClosed[m] /\ currentAttempt[m] < maxAttempts)
       => /\ Timers(m)' = Timers(m) + 1
          /\ reconnectTimeout'[m] = "pending"
          /\ currentAttempt'[m] = currentAttempt[m] + 1
          /\ \E k \in Draws : reconnectDelay'[m] = getNextDelay(currentAttempt[m], k)]_vars

C4_Witness ==
  \E m \in Mgrs :
     /\ Called(m, "onConnectionChange", "disconnected")
     /\ ~isIntentionallyClosed[m]
     /\ reconnectTimeout[m] = "pending"
     /\ currentAttempt[m] = 3
     /\ reconnectDelay[m] = 3000

\* the open socket of the connected store closes without having been asked to
UnexpectedClose(m) ==
  /\ wsClient = m /\ isConnected /\ ws[m] = "OPEN" /\ ws'[m] = "CLOSED"
  /\ ~isIntentionallyClosed[m] /\ currentAttempt[m] < maxAttempts

\* the reconnect timer fires and opens a socket
RetryFire(m) ==
  /\ reconnectTimeout[m] = "pending" /\ reconnectTimeout'[m] = "fired"
  /\ ws[m] = "CLOSED" /\ ws'[m] = "CONNECTING"

\* the socket a reconnect timer created opens
RetryOpen(m) ==
  /\ reconnectTimeout[m] = "fired" /\ ws[m] = "CONNECTING" /\ ws'[m] = "OPEN"

\* C5 as stated: between 'disconnected' and 'connected' the consumers of the
\* store see a further status, 'connecting', when the retry starts
C5_StatusPassesThroughConnecting ==
  [][\A m \in Mgrs : RetryFire(m) => <<isConnected, error>>' # <<isConnected, error>>]_vars

\* C5 amended: the unexpected close reports 'disconnected' and schedules one
\* retry; the retry creates exactly one socket and reports nothing; its open
\* event reports 'connected': connected, disconnected, connected
C5_StatusSequence ==
  [][\A m \in Mgrs :
       /\ UnexpectedClose(m) =>
            /\ ~isConnected' /\ error' = "Disconnected from server"
            /\ Timers(m)' = Timers(m) + 1
       /\ RetryFire(m) =>
            /\ Sessions(m)' = Sessions(m) + 1
            /\ Timers(m)' = Timers(m) - 1
            /\ out' = <<>>
            /\ UNCHANGED <<isConnected, error>>
       /\ RetryOpen(m) =>
            /\ isConnected' /\ error' = "null"
            /\ CallCount(m, "onConnectionChange", "connected")' = 1]_vars

C5_Witness ==
  \E m \in Mgrs :
     /\ wsClient = m /\ ws[m] = "OPEN" /\ reconnectTimeout[m] = "fired"
     /\ Called(m, "onConnectionChange", "connected")
     /\ isConnected /\ Sessions(m) = 1 /\ Timers(m) = 0

\* C6: a close event that finds isIntentionallyClosed false and no attempt
\* left schedules no timer and reports the fatal error to onError exactly once
C6_ExhaustionReportedOnce ==
  [][\A m \in Mgrs :
       (CloseEvent(m) /\ ~isIntentionallyClosed[m] /\ currentAttempt[m] >= maxAttempts)
       => /\ Timers(m)' = Timers(m)
          /\ CallCount(m, "onError", MaxError)' = 1
          /\ error' = MaxError]_vars

C6_Witness ==
  \E m \in Mgrs :
     /\ Called(m, "onConnectionChange", "disconnected")
     /\ Called(m, "onError", MaxError)
     /\ currentAttempt[m] = maxAttempts
     /\ error = MaxError

\* C7: when exhaustion has just been reported the instance has nothing left
\* that could create a socket or schedule a timer by itself, and the next
\* connect() of the owner starts a new attempt
C7_ExhaustedStaysDown ==
  [][\A m \in Mgrs :
       /\ Called(m, "onError", MaxError)' => Sessions(m)' + Timers(m)' = 0
       /\ (error = MaxError /\ wsClient = m /\ ~BusyNow(m)
             /\ \E n \in Mgrs : ws'[n] = "CONNECTING")
            => \A n \in Mgrs : wsClient' = n => Sessions(n)' = 1]_vars

\* C8: at most one BinanceWS instance with a live socket or a pending
\* reconnect timer exists, however often connect() is called
C8_StoreConnectIdempotent ==
  Cardinality({m \in Mgrs : Sessions(m) > 0 \/ Timers(m) > 0}) <= 1

\* C9: disconnect() tears the current instance down and clears isConnected,
\* and a second disconnect() changes nothing
C9_StoreDisconnectIdempotent ==
  /\ [](LET w1 == storeDisconnect(World)
        IN w1.ok => /\ storeDisconnect(w1) = w1
                    /\ w1.wsClient = NoMgr /\ ~w1.isConnected /\ w1.out = <<>>)
  /\ [][\A m \in Mgrs : (wsClient = m /\ wsClient' = NoMgr) =>
          /\ ~isConnected'
          /\ isIntentionallyClosed'[m] \/ ~BusyNow(m)'
          /\ reconnectTimeout'[m] = "null"
          /\ ~heartbeatInterval'[m]
          /\ ws'[m] = "null"
          /\ Sessions(m)' = 0]_vars

C9_Witness ==
  /\ wsClient = NoMgr /\ ~isConnected
  /\ \E m \in Mgrs : isIntentionallyClosed[m] /\ detached[m]["CLOSING"] = 1

RECURSIVE Concat(_)
Concat(bs) == IF bs = <<>> THEN <<>> ELSE Head(bs) \o Concat(Tail(bs))

\* C10: the batches handed to the consumer, one after the other, followed by
\* the pending batch are exactly the added items in arrival order; with no
\* timer armed nothing is pending; each flush hands over the whole batch
C10_NothingLostOrReordered ==
  /\ [](/\ Concat(flushed) \o batch = added
        /\ ~timeoutId => Concat(flushed) = added)
  /\ [][flushed' # flushed =>
          /\ batch # <<>>
          /\ flushed' = Append(flushed, batch)
          /\ batch' = <<>>]_vars

C10_Witness ==
  /\ ~timeoutId
  /\ Len(flushed) = 2
  /\ Len(flushed[1]) = 2
  /\ Len(added) = 3

\* C11: the consumer never gets an empty batch: without add() there is no
\* flush and no timer, an armed timer always has items to flush, a flush
\* happens only by an armed timer and leaves no timer behind, and a timer is
\* armed only by add()
C11_NoEmptyFlush ==
  /\ [](/\ \A i \in 1..Len(flushed) : flushed[i] # <<>>
        /\ added = <<>> => (flushed = <<>> /\ ~timeoutId)
        /\ timeoutId => batch # <<>>)
  /\ [][/\ flushed' # flushed => (timeoutId /\ ~timeoutId' /\ batch' = <<>>)
        /\ (~timeoutId /\ timeoutId') => added' # added]_vars

C11_Witness ==
  /\ Len(flushed) = 1 /\ ~timeoutId /\ batch = <<>>
  /\ now >= flushedAt[1] + TicksPerInterval

\* number of items handed over by the first j flushes
RECURSIVE FlushedUpTo(_)
FlushedUpTo(j) == IF j = 0 THEN 0 ELSE FlushedUpTo(j - 1) + Len(flushed[j])

\* the flush that handed over the i-th added item
FlushOf(i) ==
  CHOOSE j \in 1..Len(flushed) : FlushedUpTo(j - 1) < i /\ i <= FlushedUpTo(j)

\* C12: an item added at time t is handed to the consumer no later than
\* t + TicksPerInterval (one batch interval), and while it waits no more than
\* that has passed; the timer is armed for one interval by the add that finds
\* none armed and later adds leave it as it is
C12_FlushWithinInterval ==
  /\ [](\A i \in 1..Len(added) :
          IF i <= FlushedUpTo(Len(flushed))
          THEN flushedAt[FlushOf(i)] - addedAt[i] <= TicksPerInterval
          ELSE timeoutId /\ now - addedAt[i] <= TicksPerInterval)
  /\ [][added' # added =>
          flushAt' = IF timeoutId THEN flushAt ELSE now + TicksPerInterval]_vars

C12_Witness ==
  /\ Len(flushed) >= 1 /\ Len(flushed[1]) >= 2
  /\ flushedAt[1] - addedAt[1] = TicksPerInterval
  /\ addedAt[2] > addedAt[1]

InBatch(b, s) == \E i \in 1..Len(b) : b[i].symbol = s

LastOf(b, s) ==
  b[CHOOSE i \in 1..Len(b) :
      b[i].symbol = s /\ \A j \in (i + 1)..Len(b) : b[j].symbol # s]

\* C14: the merge of a flushed batch is last-write-wins per symbol: a symbol
\* of the batch gets the last record the batch has for it, every other symbol
\* keeps its record, and lastUpdateTime is set to the time of the merge
C14_MergeLastWriteWins ==
  [][flushed' # flushed =>
       LET b == flushed'[Len(flushed')]
       IN /\ \A s \in Symbols :
               tickers'[s] = IF InBatch(b, s) THEN LastOf(b, s) ELSE tickers[s]
          /\ lastUpdateTime' = now']_vars

C14_Witness ==
  /\ Len(flushed) = 2
  /\ flushed[1] = <<[symbol |-> "ETHUSDT", currentPrice |-> 2]>>
  /\ flushed[2] = <<[symbol |-> "BTCUSDT", currentPrice |-> 2],
                    [symbol |-> "BTCUSDT", currentPrice |-> 1]>>
  /\ tickers["BTCUSDT"].currentPrice = 1
  /\ tickers["ETHUSDT"].currentPrice = 2
  /\ lastUpdateTime = flushedAt[2] /\ lastUpdateTime > flushedAt[1]

\* the handler that just ran was onMessage of a ticker frame f with all its
\* fields and a positive price
ValidFrameArrived(f) ==
  /\ f.full /\ f.c \in Prices
  /\ \E i \in 1..Len(out) : out[i].cb = "onTicker" /\ out[i].arg = f

\* C13: a valid ticker frame arriving on an open connection is appended to
\* the batch and changes nothing in the store; the flush that follows when the
\* interval has elapsed is one merge of the whole batch, after which the table
\* holds, for the symbol of every frame of the batch, the record of the last
\* one
C13_OneMergePerInterval ==
  [][/\ \A f \in TickerFrames : ValidFrameArrived(f)' =>
          /\ batch' = Append(batch, [symbol |-> f.s, currentPrice |-> f.c])
          /\ flushAt' = IF batch = <<>> THEN now + TicksPerInterval ELSE flushAt
          /\ UNCHANGED <<tickers, lastUpdateTime, flushed>>
     /\ flushed' # flushed =>
          /\ flushed' = Append(flushed, batch)
          /\ now = flushAt
          /\ \A i \in 1..Len(batch) :
               tickers'[batch[i].symbol] = LastOf(batch, batch[i].symbol)]_vars

C13_Witness ==
  /\ Len(flushed) = 1 /\ Len(flushed[1]) = 3
  /\ \A i \in 1..3 : flushed[1][i].symbol = "BTCUSDT"
  /\ flushed[1][1].currentPrice = 1 /\ flushed[1][3].currentPrice = 2
  /\ addedAt[3] > addedAt[1]
  /\ tickers["BTCUSDT"] = flushed[1][3]
  /\ tickers["ETHUSDT"] = NoTicker
  /\ isConnected


\* ---- the ReconnectPolicy object on its own

\* the step is a getNextDelay() call that returned
DelayReturned ==
  /\ policyResult'.op = "getNextDelay"
  /\ ~ policyResult'.threw
  /\ policyCalls' = policyCalls + 1

\* the step is a getNextDelay() call that raised
DelayRaised ==
  /\ policyResult'.op = "getNextDelay"
  /\ policyResult'.threw
  /\ policyResult # policyResult'

\* the delays of the default configuration without jitter, attempt by attempt
DefaultDelays == <<1000, 2000, 4000, 8000, 16000, 30000, 30000, 30000, 30000, 30000>>

\* C15: with jitter disabled the call of getNextDelay() made after a calls
\* that returned, a below maxAttempts, returns exactly
\* min(initialDelay * multiplier^a, maxDelay); with the defaults that is 1000,
\* 2000, 4000, 8000, 16000 and from then on 30000.
C15_DelayWithoutJitter ==
  [][(DelayReturned /\ ~ policy.config.jitter) =>
       /\ policyCalls < policy.config.maxAttempts
       /\ policyResult'.value =
            Min(policy.config.initialDelay * Pow(policy.config.multiplier, policyCalls),
                policy.config.maxDelay)
       /\ (policy.config = [DefaultConfig EXCEPT !.jitter = FALSE] =>
             policyResult'.value = DefaultDelays[policyCalls + 1])]_vars

\* the sixth call of a default policy without jitter returned the capped delay
C15_Witness ==
  /\ policy.config = [DefaultConfig EXCEPT !.jitter = FALSE]
  /\ policyResult.op = "getNextDelay"
  /\ policyCalls = 6
  /\ policyResult.value = 30000

C17_ExhaustionAfterMaxAttempts ==
  /\ [](policyCalls <= policy.config.maxAttempts)
  /\ [][DelayReturned => policyCalls < policy.config.maxAttempts]_vars
  /\ [][DelayRaised => /\ policyCalls = policy.config.maxAttempts
                       /\ policy' = policy
                       /\ policyCalls' = policyCalls]_vars
  /\ [][policyResult'.op = "getNextDelay" =>
          (policyResult'.threw <=> policyCalls >= policy.config.maxAttempts)]_vars
  /\ [][policyResult'.op = "canRetry" =>
          /\ policyResult'.can = (policyCalls < policy.config.maxAttempts)
          /\ policyResult'.can = (policy.currentAttempt < policy.config.maxAttempts)]_vars

\* the eleventh call of a default policy raised
C17_Witness ==
  /\ policy.config = DefaultConfig
  /\ policyResult.op = "getNextDelay"
  /\ policyResult.threw
  /\ policyCalls = 10

\* the policy p after n calls of getNextDelay() that returned
RECURSIVE AfterCalls(_, _)
AfterCalls(p, n) ==
  IF n = 0 THEN p ELSE AfterCalls(policyGetNextDelay(p, 0).policy, n - 1)

\* C18: reset() sets currentAttempt to 0 and currentDelay to initialDelay in
\* whatever state it is called, and each call of getNextDelay() after it gives
\* what the same call gives on a policy fresh from the constructor.
C18_ResetRestoresFreshPolicy ==
  /\ [][policyResult'.op = "reset" =>
          /\ policy'.currentAttempt = 0
          /\ policy'.currentDelay.num
               = policy.config.initialDelay * policy'.currentDelay.den
          /\ policy'.config = policy.config]_vars
  /\ [][policyResult'.op = "getNextDelay" =>
          \E k \in Draws :
            LET fresh == policyGetNextDelay(
                           AfterCalls(policyNew(policy.config), policyCalls), k)
            IN /\ policyResult'.threw = fresh.threw
               /\ policyResult'.value = fresh.value
               /\ policy'.currentAttempt = fresh.policy.currentAttempt
               /\ ~ fresh.threw => policy'.currentDelay = fresh.policy.currentDelay]_vars

\* reset() was called on an exhausted policy
C18_Witness ==
  /\ policyResult.op = "reset"
  /\ policyResult.was = policy.config.maxAttempts
  /\ policy.currentAttempt = 0
  /\ policy.currentDelay = Whole(policy.config.initialDelay)

OpenSocks(m) == (IF ws[m] = "OPEN" THEN 1 ELSE 0) + detached[m]["OPEN"]
ConnSocks(m) == (IF ws[m] = "CONNECTING" THEN 1 ELSE 0) + detached[m]["CONNECTING"]

\* slot m holds the same instance before and after the step: it had a socket or
\* a timer, so that storeConnect did not construct a new one in the slot, and
\* it was not discarded
SameInstance(m) == BusyNow(m) /\ (BusyNow(m)' \/ wsClient' = m)

\* the step is the open event of a socket of instance m
OpenEvent(m) == OpenSocks(m)' = OpenSocks(m) + 1

\* the step changed the attempt counter of instance m
AttemptChanged(m) == SameInstance(m) /\ currentAttempt'[m] # currentAttempt[m]

\* the step scheduled a retry of instance m and counted it
RetryScheduled(m) ==
  /\ currentAttempt'[m] = currentAttempt[m] + 1
  /\ reconnectTimeout'[m] = "pending"
  /\ reconnectDelay'[m] > 0

\* the step is neither an open nor a close event of instance m and created no
\* socket: connect(), reconnect() or a timer callback in which new WebSocket()
\* raised
TransportRaised(m) ==
  /\ ~ OpenEvent(m)
  /\ ~ CloseEvent(m)
  /\ ConnSocks(m)' <= ConnSocks(m)

\* C20 as stated: the attempt counter is 0 after every open event and is
\* changed by the open event and by the retry a close event schedules only;
\* connect(), disconnect(), error events and the firing or cancelling of a
\* reconnect timer leave it unchanged.
C20_OnlyOpenAndCloseEvents ==
  [][\A m \in Mgrs :
       /\ (OpenEvent(m) /\ SameInstance(m)) => currentAttempt'[m] = 0
       /\ AttemptChanged(m) =>
            \/ OpenEvent(m)
            \/ CloseEvent(m) /\ RetryScheduled(m)]_vars

\* C20: the attempt counter is 0 after every open event and is changed by the
\* open event (to 0) and by the scheduling of a retry (+1) only. A retry is
\* scheduled by the close event of a connection that was not closed on purpose
\* and, when new WebSocket() raises, by connect(), reconnect() and the callback
\* of a reconnect timer; otherwise these, disconnect(), error events and the
\* cancelling of a timer leave the counter unchanged.
C20_AttemptCounter ==
  [][\A m \in Mgrs :
       /\ (OpenEvent(m) /\ SameInstance(m)) => currentAttempt'[m] = 0
       /\ AttemptChanged(m) =>
            \/ OpenEvent(m)
            \/ RetryScheduled(m) /\ (CloseEvent(m) \/ TransportRaised(m))
       /\ (SameInstance(m) /\ ~ OpenEvent(m) /\ ~ CloseEvent(m)
             /\ ConnSocks(m)' > ConnSocks(m)) =>
            currentAttempt'[m] = currentAttempt[m]
       /\ (SameInstance(m) /\ Called(m, "onError", "WebSocket error occurred")') =>
            currentAttempt'[m] = currentAttempt[m]
       /\ (SameInstance(m) /\ wsClient = m /\ wsClient' = NoMgr) =>
            currentAttempt'[m] = currentAttempt[m]]_vars

\* the socket a retry created is open: the counter the retry had raised is 0,
\* the subscription is sent and the heartbeat runs
C20_Witness ==
  \E m \in Mgrs :
     /\ ws[m] = "OPEN" /\ reconnectTimeout[m] = "fired"
     /\ currentAttempt[m] = 0
     /\ Called(m, "send", [method |-> "SUBSCRIBE",
                           params |-> StreamNames(CRYPTO_SYMBOLS), id |-> 1])
     /\ heartbeatInterval[m]


\* ---- inbound frames

\* the subscription confirmation {result: null, id: 1}
AckFrame == [e |-> "ack", s |-> "none", c |-> 0, full |-> FALSE]

\* C21: a subscription confirmation frame is not forwarded to onTicker (the
\* handler invokes no callback at all) and changes neither the batch, the
\* flush timer nor the table, on whatever socket it arrives.
C21_AckNotForwarded ==
  [][received'[2] = AckFrame =>
       /\ out' = <<>>
       /\ UNCHANGED <<coVars, tickers, lastUpdateTime, isConnected, error>>]_vars

\* a confirmation arrived while a batch was waiting for its flush
C21_Witness ==
  /\ received[2] = AckFrame
  /\ wsClient # NoMgr /\ ws[wsClient] = "OPEN"
  /\ timeoutId /\ Len(batch) = 1
  /\ timeSinceLastMessage[wsClient] = 0


\* C22 as stated: every inbound frame resets the time since the last message,
\* and every frame that is no subscription confirmation is forwarded to
\* onTicker.
C22_AllButAckForwarded ==
  [][\A m \in Mgrs : received'[1] = m =>
       /\ timeSinceLastMessage'[m] = 0
       /\ received'[2] # AckFrame => Called(m, "onTicker", received[2])']_vars

\* C22: every inbound frame resets the time since the last message. A frame
\* with e = '24hrTicker' that is no subscription confirmation is forwarded to
\* onTicker once, as it was parsed and before the next frame is handled, so
\* that the accepted ones reach the batch in arrival order; every other frame
\* (a text that is no JSON, another event type) is dropped and nothing is
\* called.
C22_TickerFramesForwarded ==
  [][\A m \in Mgrs : received'[1] = m =>
       /\ timeSinceLastMessage'[m] = 0
       /\ received'[2].e = "24hrTicker" =>
            /\ out' = <<[m |-> m, cb |-> "onTicker", arg |-> received'[2]]>>
            /\ processTickerUpdate(received'[2]).isValid =>
                 added' = Append(added, processTickerUpdate(received'[2]).ticker)
       /\ received'[2].e # "24hrTicker" =>
            /\ out' = <<>>
            /\ added' = added]_vars

\* after a heartbeat interval of silence a ticker frame with a price of 0
\* arrived as the second frame and was forwarded as it is
C22_Witness ==
  \E m \in Mgrs :
     /\ received[1] = m
     /\ received[2].e = "24hrTicker" /\ received[2].c = 0
     /\ Called(m, "onTicker", received[2])
     /\ heartbeatInterval[m] /\ hbWait[m] = 0
     /\ timeSinceLastMessage[m] = 0
     /\ Len(added) = 1


\* the payload is one the validator is to reject: no object, an event type
\* other than 24hrTicker, a required field missing, or a price that is not
\* positive
Rejected(f) ==
  \/ f.e # "24hrTicker"
  \/ ~ f.full
  \/ f.c # NaN /\ f.c <= 0

connVars == <<ws, detached, reconnectTimeout, reconnectDelay, orphanTimers,
              isIntentionallyClosed, heartbeatInterval, hbWait, currentAttempt,
              wsClient, isConnected, error>>

\* C23: a payload the validator rejects, handed to processTickerFromWS by
\* onMessage or by any caller, adds nothing to the batch, arms no timer and
\* leaves the table and the connection as they are; an accepted payload is
\* added to the batch whatever was rejected before it.
C23_RejectedChangesNothing ==
  [][/\ (received'[2] # NoFrame /\ Rejected(received'[2])) =>
          UNCHANGED <<coVars, tickers, lastUpdateTime, connVars>>
     /\ (received'[2] # NoFrame /\ ~ Rejected(received'[2])
           /\ received'[2] # AckFrame) =>
          /\ added' = Append(added, mapBinanceDataToTicker(received'[2]))
          /\ batch' = Append(batch, mapBinanceDataToTicker(received'[2]))
          /\ timeoutId']_vars

\* a ticker frame with a price of 0 was forwarded by the open connection and
\* rejected while an item was waiting in the batch
C23_Witness ==
  \E m \in Mgrs :
     /\ received[1] = m
     /\ received[2].e = "24hrTicker" /\ received[2].full /\ received[2].c = 0
     /\ Called(m, "onTicker", received[2])
     /\ ws[m] = "OPEN" /\ isConnected
     /\ Len(added) = 1 /\ Len(batch) = 1 /\ timeoutId


\* ---- what the store shows of failures

\* C24 as stated: state.error gets a message only when the retry budget of an
\* instance is used up; a transport error event or a close event that leaves
\* attempts leaves it null.
C24_ErrorOnlyWhenExhausted ==
  [][(error' # error /\ error' # "null") =>
       \E m \in Mgrs : currentAttempt[m] >= maxAttempts]_vars

\* C24: state.error gets the message 'Maximum reconnection attempts reached'
\* only when the retry budget of an instance is used up. Whether or not
\* attempts remain, a transport error event sets it to 'WebSocket error
\* occurred' and a close event to 'Disconnected from server' (after which an
\* exhausted instance reports the fatal message); the report of 'connected'
\* sets it back to null.
C24_FatalErrorOnlyWhenExhausted ==
  [][/\ (error' = MaxError /\ (error # MaxError \/ out' # <<>>)) =>
          \E m \in Mgrs : /\ currentAttempt[m] >= maxAttempts
                          /\ Called(m, "onError", MaxError)'
     /\ \A m \in Mgrs :
          /\ Called(m, "onError", "WebSocket error occurred")' =>
               error' = "WebSocket error occurred"
          /\ (CloseEvent(m) /\ currentAttempt[m] < maxAttempts) =>
               error' = "Disconnected from server"
          /\ (CloseEvent(m) /\ currentAttempt[m] >= maxAttempts
                /\ ~ isIntentionallyClosed[m]) =>
               error' = MaxError
          /\ Called(m, "onConnectionChange", "connected")' => error' = "null"]_vars

\* the first connection failed with attempts left: the store shows the
\* transport error
C24_Witness ==
  \E m \in Mgrs :
     /\ wsClient = m /\ ws[m] = "FAILED"
     /\ currentAttempt[m] = 0
     /\ error = "WebSocket error occurred"
     /\ ~ isConnected


\* ---- new WebSocket(url) raises

\* in this step new WebSocket() raised in connectWebSocket of instance m
Raised(m) == Called(m, "new WebSocket", "raised")'

\* the heartbeat tick of instance m that finds the connection stale: the only
\* caller of connectWebSocket that stops the heartbeat first (in disconnect())
StaleHeartbeat(m) ==
  heartbeatInterval[m] /\ hbWait[m] = 0 /\ timeSinceLastMessage[m] > STALE_THRESHOLD

\* the instance in slot m is the one the step began with, or one the step
\* constructed in an empty slot
KnownInstance(m) == BusyNow(m) \/ currentAttempt[m] = 0

\* C25 as stated: an exception of new WebSocket() is handled as a close event
\* is: 'disconnected' is reported, the heartbeat is stopped, and a retry is
\* scheduled or the exhaustion reported.
C25_RaiseHandledAsClose ==
  [][\A m \in Mgrs : (Raised(m) /\ KnownInstance(m)) =>
       /\ Called(m, "onConnectionChange", "disconnected")'
       /\ ~ heartbeatInterval'[m]
       /\ \/ RetryScheduled(m)
          \/ Called(m, "onError", MaxError)']_vars

\* C25: an exception of new WebSocket() is caught in connectWebSocket and takes
\* the reconnection path of a close event: with attempts left exactly one
\* retry is scheduled with a delay of the backoff policy and the attempt is
\* counted, without attempts the exhaustion is reported to onError once and no
\* timer is set. Unlike a close event it reports no connection status and
\* leaves the heartbeat as its caller left it.
C25_RaiseSchedulesRetry ==
  [][\A m \in Mgrs : (Raised(m) /\ KnownInstance(m)) =>
       /\ CallCount(m, "new WebSocket", "raised")' = 1
       /\ currentAttempt[m] < maxAttempts =>
            /\ RetryScheduled(m)
            /\ \E k \in Draws : reconnectDelay'[m] = getNextDelay(currentAttempt[m], k)
            /\ Timers(m)' \in {Timers(m), Timers(m) + 1}
            /\ ~ Called(m, "onError", MaxError)'
       /\ currentAttempt[m] >= maxAttempts =>
            /\ CallCount(m, "onError", MaxError)' = 1
            /\ Timers(m)' <= Timers(m)
            /\ currentAttempt'[m] = currentAttempt[m] \/ ~ BusyNow(m)'
       /\ ~ Called(m, "onConnectionChange", "disconnected")'
       /\ ~ Called(m, "onConnectionChange", "connected")'
       /\ UNCHANGED isConnected
       /\ \/ heartbeatInterval'[m] = heartbeatInterval[m]
          \/ StaleHeartbeat(m) /\ ~ heartbeatInterval'[m]
          \/ ~ BusyNow(m)']_vars

\* the callback of a reconnect timer found new WebSocket() raising and
\* scheduled the second retry
C25_Witness ==
  \E m \in Mgrs :
     /\ Called(m, "new WebSocket", "raised")
     /\ wsClient = m /\ ws[m] = "CLOSED"
     /\ currentAttempt[m] = 2
     /\ reconnectTimeout[m] = "pending" /\ Timers(m) = 1
     /\ ~ heartbeatInterval[m]
     /\ error = "Disconnected from server"

\* the subscription frame of the given method and id for a symbol list
Frame(method, list, id) ==
  [method |-> method, params |-> StreamNames(list), id |-> id]

\* the step is a call of updateSubscriptions(l) on instance m
Updating(m, l) == Called(m, "updateSubscriptions", l)'

\* instance m sending frame f
Send(m, f) == [m |-> m, cb |-> "send", arg |-> f]

\* C26: updateSubscriptions(newSymbols) on an instance whose socket is open
\* sends UNSUBSCRIBE (id 2) for the old symbol list, then SUBSCRIBE (id 1) for
\* the new one, and replaces the list; on an instance whose socket is not open
\* it sends nothing and changes nothing.
C26_UpdateSubscriptions ==
  [][\A m \in Mgrs, l \in SymbolLists : Updating(m, l) =>
       IF ws[m] = "OPEN"
       THEN /\ Len(out') = 3
            /\ out'[2] = Send(m, Frame("UNSUBSCRIBE", symbols[m], 2))
            /\ out'[3] = Send(m, Frame("SUBSCRIBE", l, 1))
            /\ symbols' = [symbols EXCEPT ![m] = l]
            /\ UNCHANGED <<ws, detached, reconnectTimeout, reconnectDelay,
                           orphanTimers, isIntentionallyClosed, heartbeatInterval,
                           hbWait, timeSinceLastMessage, currentAttempt,
                           storeVars, coVars>>
       ELSE /\ Len(out') = 1
            /\ UNCHANGED <<mgrVars, storeVars, coVars>>]_vars

\* the list of an open instance was replaced by one with an upper-case symbol:
\* both frames were sent, the old list in the first, the new one in the second
C26_Witness ==
  \E m \in Mgrs :
     /\ ws[m] = "OPEN" /\ wsClient = m
     /\ symbols[m] = <<"ETHUSDT", "btcusdt">>
     /\ Len(out) = 3
     /\ out[2].arg = [method |-> "UNSUBSCRIBE", id |-> 2,
                      params |-> <<(<<"btcusdt", "@ticker">>)>>]
     /\ out[3].arg = [method |-> "SUBSCRIBE", id |-> 1,
                      params |-> <<(<<"ethusdt", "@ticker">>), <<"btcusdt", "@ticker">> >>]

\* C27: every open event of a socket of an instance, after a reconnect
\* included, resets the backoff policy of the instance, sends exactly one
\* SUBSCRIBE frame (id 1) that lists the current symbols as '<symbol>@ticker',
\* starts the heartbeat and reports 'connected'.
C27_OpenEventSubscribes ==
  [][\A m \in Mgrs : OpenEvent(m) =>
       /\ currentAttempt'[m] = 0
       /\ CallCount(m, "send", Frame("SUBSCRIBE", symbols[m], 1))' = 1
       /\ \A i \in 1..Len(out') :
            out'[i].cb = "send" => out'[i] = Send(m, Frame("SUBSCRIBE", symbols[m], 1))
       /\ heartbeatInterval'[m]
       /\ CallCount(m, "onConnectionChange", "connected")' = 1]_vars

\* the step is the error event of a socket of instance m
ErrorEvent(m) == Called(m, "onError", "WebSocket error occurred")'

\* sockets of instance m whose events are still to come
AllSocks(m) == (IF ws[m] \in Pending THEN 1 ELSE 0) + NumDetached(World, m)

\* C28: the error event of a socket forwards one error to the owner's error
\* callback and changes nothing else in the instance: this.ws refers to the
\* socket it referred to, no socket is opened, the intentionally-closed flag,
\* the heartbeat timer, the reconnect timers and the attempt counter are as
\* they were; a retry is scheduled by the close event only.
C28_ErrorEventOnlyForwards ==
  [][\A m \in Mgrs : ErrorEvent(m) =>
       /\ out' = <<[m |-> m, cb |-> "onError", arg |-> "WebSocket error occurred"]>>
       /\ \/ ws'[m] = ws[m]
          \/ ws[m] \in {"CONNECTING", "OPEN", "CLOSING"} /\ ws'[m] = "FAILED"
       /\ AllSocks(m)' = AllSocks(m)
       /\ detached'[m]["CONNECTING"] <= detached[m]["CONNECTING"]
       /\ isIntentionallyClosed'[m] = isIntentionallyClosed[m]
       /\ heartbeatInterval'[m] = heartbeatInterval[m]
       /\ hbWait'[m] = hbWait[m]
       /\ reconnectTimeout'[m] = reconnectTimeout[m]
       /\ orphanTimers'[m] = orphanTimers[m]
       /\ currentAttempt'[m] = currentAttempt[m]
       /\ timeSinceLastMessage'[m] = timeSinceLastMessage[m]
       /\ symbols'[m] = symbols[m]]_vars

\* the open socket of an instance with a running heartbeat failed after one
\* retry: the error reached the store, the heartbeat runs, no timer is pending
C28_Witness ==
  \E m \in Mgrs :
     /\ Called(m, "onError", "WebSocket error occurred")
     /\ ws[m] = "FAILED" /\ wsClient = m
     /\ heartbeatInterval[m]
     /\ reconnectTimeout[m] = "fired" /\ Timers(m) = 0
     /\ error = "WebSocket error occurred"

\* the records handed to flushBatch so far, in the order they were added
Handed == SubSeq(added, 1, FlushedUpTo(Len(flushed)))

\* C29: across batches the most recent record wins: the table holds for every
\* symbol the last record handed over so far (none if there was none), with
\* no flush timer pending that is the record of the last valid frame for the
\* symbol, and a flush replaces a record only by one that was added after all
\* the records handed over before.
C29_MostRecentRecordWins ==
  /\ [](\A s \in Symbols :
          tickers[s] = IF InBatch(Handed, s) THEN LastOf(Handed, s) ELSE NoTicker)
  /\ [](~timeoutId =>
          \A s \in Symbols :
             tickers[s] = IF InBatch(added, s) THEN LastOf(added, s) ELSE NoTicker)
  /\ [][flushed' # flushed =>
          \A s \in Symbols : tickers'[s] # tickers[s] =>
             \E i \in (Len(Handed) + 1)..Len(Handed') :
                /\ added[i] = tickers'[s]
                /\ \A j \in (i + 1)..Len(added) : added[j].symbol # s]_vars

\* two flushes: the second replaced the record of BTCUSDT by a later one with
\* a lower price and left the record of ETHUSDT, which only the first had
C29_Witness ==
  /\ ~timeoutId /\ Len(flushed) = 2
  /\ flushed[1] = <<[symbol |-> "BTCUSDT", currentPrice |-> 2],
                    [symbol |-> "ETHUSDT", currentPrice |-> 1]>>
  /\ flushed[2] = <<[symbol |-> "BTCUSDT", currentPrice |-> 1]>>
  /\ tickers["BTCUSDT"].currentPrice = 1
  /\ tickers["ETHUSDT"].currentPrice = 1

\* the table after the first n batches were merged, each as a whole
RECURSIVE TableAfter(_)
TableAfter(n) ==
  IF n = 0 THEN [s \in Symbols |-> NoTicker]
  ELSE LET b == flushed[n]
       IN [s \in Symbols |-> IF InBatch(b, s) THEN LastOf(b, s) ELSE TableAfter(n - 1)[s]]

\* C30: a subscriber never sees a batch merged in part: the table of the store
\* and the table a subscriber holds are each the result of merging a whole
\* number of batches; a flush makes a new Map object with every record of the
\* batch the table of the store in one update and leaves the object a
\* subscriber holds as it was; a batch handed to flushBatch stays as it was
\* handed over whatever is added later.
C30_NoPartialMerge ==
  /\ [](/\ tickers = TableAfter(Len(flushed))
        /\ \E n \in 0..Len(flushed) : held.table = TableAfter(n)
        /\ held.ref = tickersRef => held.table = tickers)
  /\ [][flushed' # flushed =>
          /\ tickersRef' \notin {tickersRef, held.ref}
          /\ held' = held]_vars
  /\ [][\A i \in 1..Len(flushed) : flushed'[i] = flushed[i]]_vars

\* a subscriber holds the table of the first flush (BTCUSDT only) after a
\* second flush of two records merged ETHUSDT and a new record of BTCUSDT
C30_Witness ==
  /\ Len(flushed) = 2 /\ Len(flushed[2]) = 2
  /\ held.ref = 1 /\ tickersRef = 2
  /\ held.table["BTCUSDT"].currentPrice = 1
  /\ held.table["ETHUSDT"] = NoTicker
  /\ tickers["BTCUSDT"].currentPrice = 2
  /\ tickers["ETHUSDT"] # NoTicker

\* C31: updates reach the consumer rate-limited: two consecutive calls of the
\* flush callback are at least one batch interval apart, and so are two
\* consecutive merges into the table, however many items are added in between.
C31_FlushesOneIntervalApart ==
  /\ [](\A i \in 1..(Len(flushedAt) - 1) :
          flushedAt[i + 1] - flushedAt[i] >= TicksPerInterval)
  /\ [][(flushed # <<>> /\ (tickers' # tickers \/ lastUpdateTime' # lastUpdateTime)) =>
          /\ lastUpdateTime = flushedAt[Len(flushedAt)]
          /\ lastUpdateTime' - lastUpdateTime >= TicksPerInterval]_vars

\* two flushes exactly one interval apart, the second of two items added as
\* soon as the first flush had returned
C31_Witness ==
  /\ Len(flushed) = 2 /\ Len(flushed[2]) = 2
  /\ flushedAt[2] - flushedAt[1] = TicksPerInterval
  /\ addedAt[2] = flushedAt[1] /\ addedAt[3] = flushedAt[1]
  /\ lastUpdateTime = flushedAt[2]

\* the step is the callback of the flush timer with a batch to hand over
FlushStep == timeoutId /\ now >= flushAt /\ flushed' = Append(flushed, batch)

C33_BatchEmptyAfterFlush ==
  /\ [](added = <<>> => batch = <<>>)
  /\ [][flushed' # flushed => (batch # <<>> /\ batch' = <<>>)]_vars
  /\ [](\A i \in 1..Len(flushedAt) :
          now = flushedAt[i] /\ (\A j \in 1..Len(addedAt) : addedAt[j] < now)
             => batch = <<>>)

\* the second flush has just returned: all three items were handed over and
\* nothing is pending
C33_Witness ==
  /\ Len(flushed) = 2 /\ Len(added) = 3
  /\ now = flushedAt[2]
  /\ batch = <<>>

\* C34: func is invoked at most once per delay period: two invocations are
\* at least delay apart; the first call of the throttled function invokes func
\* at once with its arguments; the invocation by the timer delivers the
\* arguments of the last call made so far, so that with no timer pending the
\* last invocation had the arguments of the last call.
C34_ThrottleOncePerDelay ==
  /\ [](\A i \in 1..(Len(throttleRuns) - 1) :
          throttleRuns[i + 1].at - throttleRuns[i].at >= ThrottleDelay)
  /\ [](throttleCalls # <<>> =>
          /\ throttleRuns # <<>>
          /\ throttleRuns[1] = [args |-> throttleCalls[1].args,
                                at |-> throttleCalls[1].at, trailing |-> FALSE])
  /\ [][throttleRuns' # throttleRuns =>
          LET run == throttleRuns'[Len(throttleRuns')]
          IN /\ throttleRuns' = Append(throttleRuns, run)
             /\ run.at = now
             /\ run.args = throttleCalls'[Len(throttleCalls')].args
             /\ run.trailing => (throttle.timeoutId /\ throttleCalls' = throttleCalls)]_vars
  /\ [](~throttle.timeoutId /\ throttleCalls # <<>> =>
          throttleRuns[Len(throttleRuns)].args = throttleCalls[Len(throttleCalls)].args)

\* three calls: the first ran at once, the next two came within the delay
\* with different arguments, and the timer delivered those of the third
C34_Witness ==
  /\ Len(throttleCalls) = 3 /\ Len(throttleRuns) = 2
  /\ throttleCalls[2].args # throttleCalls[3].args
  /\ throttleCalls[3].at < throttleRuns[1].at + ThrottleDelay
  /\ throttleRuns[2] = [args |-> throttleCalls[3].args,
                        at |-> throttleRuns[1].at + ThrottleDelay, trailing |-> TRUE]

\* the step ran a lifecycle callback of instance m that came from a manager
\* the store no longer refers to, or from a socket the manager had replaced
FromDiscarded(m) ==
  /\ \E i \in 1..Len(out') :
        out'[i].m = m /\ out'[i].cb \in {"onConnectionChange", "onError"}
  /\ \/ wsClient # m
     \/ NumDetached(World, m)' < NumDetached(World, m)

\* C35: the connection status of the store agrees with the transport:
\* isConnected holds only while the manager of the store has a socket that
\* opened and whose close event is still to come, it holds whenever that
\* socket is open, and a lifecycle callback of a discarded manager or of a
\* replaced socket changes neither isConnected nor error.
C35_StatusAgreesWithTransport ==
  /\ [](isConnected => (wsClient # NoMgr /\ ws[wsClient] \in {"OPEN", "FAILED"}))
  /\ []((wsClient # NoMgr /\ ws[wsClient] = "OPEN") => isConnected)
  /\ [][\A m \in Mgrs : FromDiscarded(m) => UNCHANGED <<isConnected, error>>]_vars

\* C36: the retry budget is respected.  The attempt counter of an instance is
\* the number of reconnect timers scheduled since its last open event: a step
\* that schedules a timer schedules one, finds fewer than maxAttempts counted
\* and counts it; only an open event lowers the counter, to 0; so never more
\* than maxAttempts timers are scheduled between two open events.  A step that
\* cancels the pending timer (disconnect()) leaves the counter as it is.
C36_RetryBudget ==
  /\ [](\A m \in Mgrs : currentAttempt[m] <= maxAttempts)
  /\ [][\A m \in Mgrs :
          /\ (SameInstance(m) /\ Timers(m)' > Timers(m)) =>
                /\ Timers(m)' = Timers(m) + 1
                /\ currentAttempt[m] < maxAttempts
                /\ currentAttempt'[m] = currentAttempt[m] + 1
          /\ (SameInstance(m) /\ currentAttempt'[m] > currentAttempt[m]) =>
                Timers(m)' = Timers(m) + 1
          /\ (SameInstance(m) /\ currentAttempt'[m] < currentAttempt[m]) =>
                (OpenEvent(m) /\ currentAttempt'[m] = 0)
          /\ (SameInstance(m) /\ reconnectTimeout[m] = "pending"
                 /\ reconnectTimeout'[m] = "null") =>
                currentAttempt'[m] = currentAttempt[m]]_vars

\* the last timer of the budget is pending: maxAttempts timers were scheduled
\* since the instance was constructed, none of its sockets ever opened
C36_Witness ==
  \E m \in Mgrs :
     /\ wsClient = m
     /\ currentAttempt[m] = maxAttempts
     /\ reconnectTimeout[m] = "pending" /\ Timers(m) = 1
     /\ Sessions(m) = 0
     /\ error = "Disconnected from server"

\* ---- progress of reconnection

\* SpecLive: the life of one instance whose owner calls connect() once and
\* never disconnect(), with timers that fire and a transport that settles every
\* socket: a connecting socket opens or fails, a failed or closing socket gets
\* its close event. An open socket may stay open for ever.
NextLive ==
  \/ wsClient = NoMgr /\ StoreConnect(FALSE)
  \/ \E m \in Mgrs, det \in BOOLEAN : SocketOpen(m, det)
  \/ \E m \in Mgrs, det \in BOOLEAN : SocketError(m, det)
  \/ \E m \in Mgrs, det \in BOOLEAN : SocketClose(m, det)
  \/ \E m \in Mgrs : ReconnectTimerFire(m, FALSE)
  \/ \E m \in Mgrs : OrphanTimerFire(m, FALSE)
  \/ \E m \in Mgrs : HeartbeatTick(m, FALSE)
  \/ AdvanceTime

\* a connecting socket of instance m opens or fails
ConnectingSettles(m) ==
  \E det \in BOOLEAN :
     \/ SocketOpen(m, det)
     \/ /\ HasSock(m, det, "CONNECTING")
        /\ Apply(onError(SetSock(m, det, "CONNECTING", "FAILED"), m))

\* a failed or closing socket of instance m gets its close event
ClosingSettles(m) ==
  \E det \in BOOLEAN, st \in {"CLOSING", "FAILED"}, k \in Draws :
     /\ HasSock(m, det, st)
     /\ Apply(onClose(SetSock(m, det, st, "CLOSED"), m, k))

\* a pending reconnect timer fires, or the transport settles a socket
Settles ==
  \E m \in Mgrs :
     \/ ConnectingSettles(m)
     \/ ClosingSettles(m)
     \/ ReconnectTimerFire(m, FALSE)
     \/ OrphanTimerFire(m, FALSE)

SpecLive == Init /\ [][NextLive]_vars /\ WF_vars(Settles)

\* the step reported the exhaustion of instance m's retries to its owner
Exhausted(m) ==
  \E i \in 1..Len(out) :
     out[i].m = m /\ out[i].cb = "onError" /\ out[i].arg = MaxError

\* C37: reconnection makes progress: the store's instance, whenever none of its
\* sockets is open while it has a socket or a timer (it is connecting, waits
\* for a reconnect timer, or an unintentional close was just handled), gets to
\* an open socket or to the report of 'Maximum reconnection attempts reached';
\* and it is never without an open socket, a socket in transit and a timer
\* unless that report is the store's error.
C37_ReconnectionProgress ==
  /\ (wsClient # NoMgr /\ OpenSocks(wsClient) = 0 /\ BusyNow(wsClient))
        ~> (wsClient # NoMgr /\ (OpenSocks(wsClient) > 0 \/ Exhausted(wsClient)))
  /\ [](wsClient # NoMgr /\ OpenSocks(wsClient) = 0 /\ ~BusyNow(wsClient)
          => error = MaxError)

\* a reconnect timer is pending after an unintentional close of an open session
C37_Witness ==
  \E m \in Mgrs :
     /\ wsClient = m /\ OpenSocks(m) = 0 /\ Sessions(m) = 0
     /\ reconnectTimeout[m] = "pending"
     /\ currentAttempt[m] = 1
     /\ error = "Disconnected from server"

\* ---- the heartbeat of a session

\* the step is the close event of a socket that instance m had replaced
EarlierSessionClose(m) ==
  /\ CloseEvent(m)
  /\ NumDetached(World, m)' < NumDetached(World, m)

\* C38: liveness monitoring is neither lost nor duplicated: the heartbeat of an
\* instance runs only while the socket this.ws refers to has opened and its
\* close event is still to come, it runs whenever that socket is open, and
\* the close event of an earlier socket leaves the heartbeat as it is.
C38_HeartbeatFollowsSession ==
  /\ [](\A m \in Mgrs :
          /\ heartbeatInterval[m] => ws[m] \in {"OPEN", "FAILED"}
          /\ ws[m] = "OPEN" => heartbeatInterval[m])
  /\ [][\A m \in Mgrs :
          EarlierSessionClose(m) => heartbeatInterval'[m] = heartbeatInterval[m]]_vars

\* ---- the age of a session

\* C39: a session is not force-closed as stale before it has itself been open
\* for staleThreshold: a heartbeat tick that reconnects an open session finds
\* that session at least STALE_THRESHOLD old.
C39_StaleAfterThresholdOnly ==
  [][\A m \in Mgrs :
       (StaleTick(m) /\ ws[m] = "OPEN") => timeSinceOpen[m] >= STALE_THRESHOLD]_vars

\* ---- the flush timer and the batch

\* C40: between events a flush timer is pending iff the pending batch is not
\* empty, also after a flush whose consumer raised or added an item itself.
C40_TimerIffBatch ==
  (timeoutId /\ ~flushTimerFired) <=> batch # <<>>

====
